---------------------------- MODULE Spec2Model ----------------------------
(***************************************************************************)
(* State-machine model of the NativeNuance client (src/App.tsx,            *)
(* src/services/dataService.ts, the AuthProvider of src/unnamed/part_000): *)
(* the analysis session, the saved-analyses and folder collections, the    *)
(* local cache (localStorage), the remote store and the login              *)
(* reconciliation (loadCloudData).                                         *)
(*                                                                         *)
(* Strings are sequences of one-character strings, so that trim() is       *)
(* computed.  Date.now() is a logical clock that ticks at every save.      *)
(* crypto.randomUUID() is a counter of ids never used before.  An          *)
(* AnalysisResult is an opaque token with a vocabulary of a given length;  *)
(* sourceType, folder names and colours are carried through unchanged by   *)
(* every handler and are not part of the state.                            *)
(***************************************************************************)
EXTENDS Integers, Sequences, FiniteSets, TLC

VARIABLES
  \* ---- AppContent state (App.tsx 29-62)
  mode, inputText, fileName, topicInput,
  status, analysisResult, practiceResult, error,
  practiceQueue, practiceIndex, isGeneratingNext,
  savedAnalyses, analysisFolders, isDataLoading, currentAnalysisId,
  hasLoadedCloudData,
  \* ---- AuthProvider state (part_000 22-24)
  user, authLoading,
  \* ---- localStorage entries
  lsHistory, lsFolders,
  \* ---- remote tables
  remoteAnalyses, remoteFolders,
  \* ---- AnalysisView state (AnalysisView.tsx 45-67): a record of its hooks
  analysisView,
  \* ---- asynchronous work in flight
  speeches,    \* generateSpeech calls of the mounted views in flight
  recons,      \* running loadCloudData calls
  ops,         \* handlers suspended at an await of a dataService call
  requests,    \* generation-service calls in flight
  \* ---- environment
  now, nextId, nextFolderId,
  resultRefs,  \* ids of saved entries whose analysisResult is (===) the displayed object
  \* ---- observation
  last, mergesThisLogin,
  removed      \* the ids the user has removed with removeAnalysis, where observed

vars == << mode, inputText, fileName, topicInput, status, analysisResult,
           practiceResult, error, practiceQueue, practiceIndex, isGeneratingNext,
           savedAnalyses, analysisFolders, isDataLoading, currentAnalysisId,
           hasLoadedCloudData, user, authLoading, lsHistory, lsFolders,
           remoteAnalyses, remoteFolders, recons, ops, requests,
           now, nextId, nextFolderId, resultRefs, last, mergesThisLogin,
           analysisView, speeches, removed >>

sessionVars == << mode, inputText, fileName, topicInput, status, analysisResult,
                  practiceResult, error, practiceQueue, practiceIndex,
                  isGeneratingNext, currentAnalysisId, requests >>

-----------------------------------------------------------------------------
(* Bounds *)

MaxIds == 2          \* analyses created by crypto.randomUUID()
MaxFolderIds == 2    \* folders created by crypto.randomUUID()
MaxClock == 3        \* ticks of Date.now()
MaxRecons == 2       \* loadCloudData calls in flight
MaxOps == 1          \* handlers suspended at a dataService call
MaxRequests == 2     \* generation-service calls in flight
MaxSyncIds == 3      \* ids of the table and the local collection given to syncAnalyses
MaxNotes == 2        \* notes a visitor writes
MaxSpeeches == 2     \* generateSpeech calls in flight

BATCH_SIZE == 5

Null == "null"        \* null / undefined of a string-valued field
NoId == 0             \* null / undefined of an id-valued field

Users == {"u1"}
Outcomes == {"ok", "error"}            \* a dataService call: data, or { error }
CallOutcomes == {"ok", "error", "throw"} \* ... or a rejected promise
Texts == {<<>>, <<" ">>, <<"a">>, <<"b">>}
FileNames == {"f1"}
Results == {"R1", "R2"}

\* AnalysisResult.vocabulary of a result token
VocabLen(r) == IF r = "R1" THEN 2 ELSE IF r = "R3" THEN 1 ELSE 7
Vocabulary(r) == [i \in 1..VocabLen(r) |-> <<r, i>>]

-----------------------------------------------------------------------------
(* Pure helpers *)

RECURSIVE TrimLeft(_)
TrimLeft(s) == IF s # <<>> /\ Head(s) = " " THEN TrimLeft(Tail(s)) ELSE s

RECURSIVE TrimRight(_)
TrimRight(s) ==
  IF s # <<>> /\ s[Len(s)] = " " THEN TrimRight(SubSeq(s, 1, Len(s) - 1)) ELSE s

\* String.prototype.trim()
Trim(s) == TrimRight(TrimLeft(s))

Range(s) == {s[i] : i \in 1..Len(s)}
Ids(s) == {s[i].id : i \in 1..Len(s)}

\* Array.prototype.slice(from, to) with 0-based, end-exclusive indices
Slice(s, from, to) ==
  SubSeq(s, from + 1, IF to < Len(s) THEN to ELSE Len(s))


-----------------------------------------------------------------------------
(* Data shapes.  An optional structured value is a sequence of length <= 1. *)

\* SavedAnalysis (types.ts 74-83)
SavedAnalysis(id, date, text, file, result, notes, folder) ==
  [id |-> id, date |-> date, inputText |-> text, fileName |-> file,
   analysisResult |-> result, notes |-> notes, folderId |-> folder]

\* A localStorage entry: absent (getItem returns null), the parsed array, or
\* corrupt
Missing == [present |-> FALSE, corrupt |-> FALSE, val |-> <<>>]
Stored(v) == [present |-> TRUE, corrupt |-> FALSE, val |-> v]

\* an entry whose text JSON.parse rejects
Corrupt == [present |-> TRUE, corrupt |-> TRUE, val |-> <<>>]

\* getItem returns a text and JSON.parse accepts it (App.tsx 67-69, 76-78)
Parses(entry) == entry.present /\ ~entry.corrupt

\* JSON.parse(localStorage.getItem(key) || '[]')  (App.tsx 98-99)
ParseOrEmpty(entry) == IF entry.present THEN entry.val ELSE <<>>

\* notes column of a row inserted without a notes value; no notes array holds
\* NoId, note ids start at 1
DbNullNotes == <<NoId>>

\* the row written by dataService.saveAnalysis / updateAnalysis (114-123, 150-157)
AnalysisToRow(userId, a) ==
  [user |-> userId, id |-> a.id, date |-> a.date, inputText |-> a.inputText,
   fileName |-> a.fileName, analysisResult |-> a.analysisResult,
   notes |-> a.notes, folderId |-> a.folderId]

\* the row written by dataService.syncAnalyses (213-222): no notes column
SyncRow(userId, a) ==
  [user |-> userId, id |-> a.id, date |-> a.date, inputText |-> a.inputText,
   fileName |-> a.fileName, analysisResult |-> a.analysisResult,
   notes |-> DbNullNotes, folderId |-> a.folderId]

\* dbToAnalysis (dataService.ts 47-56)
dbToAnalysis(row) ==
  SavedAnalysis(row.id, row.date, row.inputText, row.fileName,
                row.analysisResult,
                IF row.notes = DbNullNotes THEN <<>> ELSE row.notes,
                row.folderId)

\* rows of a set ordered by date, newest first (.order('date', {ascending: false}));
\* rows of equal date in id order
RECURSIVE OrderByDateDesc(_)
OrderByDateDesc(rows) ==
  IF rows = {} THEN <<>>
  ELSE LET r == CHOOSE x \in rows :
                  \A y \in rows : x.date > y.date \/ (x.date = y.date /\ x.id <= y.id)
       IN <<r>> \o OrderByDateDesc(rows \ {r})

-----------------------------------------------------------------------------
(* The remote store: one row per entity id; a statement that would add a   *)
(* second row with an id already in the table is rejected as a whole.      *)

UserRows(userId) == {r \in remoteAnalyses : r.user = userId}

\* dataService.fetchAnalyses (83-98): [] on error
fetchAnalyses(userId, out) ==
  IF out = "ok" THEN
    LET ordered == OrderByDateDesc(UserRows(userId))
    IN [i \in 1..Len(ordered) |-> dbToAnalysis(ordered[i])]
  ELSE <<>>

\* dataService.fetchFolders (324-339): [] on error; rows in created_at order
fetchFolders(userId, out) ==
  IF out = "ok" THEN
    LET IsMine(r) == r.user = userId
        mine == SelectSeq(remoteFolders, IsMine)
    IN [i \in 1..Len(mine) |-> mine[i].id]
  ELSE <<>>

\* insert of rows into saved_analyses: the table afterwards
InsertAnalyses(rows, out) ==
  IF out = "ok" /\ \A r \in rows : \A x \in remoteAnalyses : x.id # r.id
  THEN remoteAnalyses \cup rows
  ELSE remoteAnalyses

InsertRejected(rows, out) ==
  out # "ok" \/ \E r \in rows : \E x \in remoteAnalyses : x.id = r.id

\* insert of rows into analysis_folders: the table afterwards
InsertFolders(rows, out) ==
  IF out = "ok" /\
     \A i \in 1..Len(rows) : \A j \in 1..Len(remoteFolders) :
        remoteFolders[j].id # rows[i].id
  THEN remoteFolders \o rows
  ELSE remoteFolders

\* a faulty filter that keeps only the first analysis the table lacks
SyncFirstNewAnalysis(userId, analyses, sel) ==
  LET existingIds == IF sel = "ok" THEN {r.id : r \in UserRows(userId)} ELSE {}
      IsNew(a) == a.id \notin existingIds
      new == SelectSeq(analyses, IsNew)
  IN IF new = <<>> THEN <<>> ELSE <<new[1]>>

\* newAnalyses of dataService.syncAnalyses (199-207); sel: the outcome of the
\* id query, whose error is not looked at: existing is then null
SyncNewAnalyses(userId, analyses, sel) ==
  LET existingIds == IF sel = "ok" THEN {r.id : r \in UserRows(userId)} ELSE {}
      IsNew(a) == a.id \notin existingIds
  IN SelectSeq(analyses, IsNew)

\* a faulty syncAnalyses that uploads nothing
syncAnalysesSkipping(userId, analyses, sel, ins) == remoteAnalyses

\* dataService.syncAnalyses (195-227): the table afterwards; ins: the outcome of
\* the insert
syncAnalyses(userId, analyses, sel, ins) ==
  LET newAnalyses == SyncNewAnalyses(userId, analyses, sel)
  IN IF Len(analyses) = 0 \/ Len(newAnalyses) = 0 THEN remoteAnalyses
     ELSE InsertAnalyses({SyncRow(userId, newAnalyses[i]) : i \in 1..Len(newAnalyses)},
                         ins)

\* whether a remote call of that syncAnalyses run returned an error
SyncAnalysesFailed(userId, analyses, sel, ins) ==
  /\ Len(analyses) > 0
  /\ \/ sel # "ok"
     \/ LET newAnalyses == SyncNewAnalyses(userId, analyses, sel)
        IN /\ Len(newAnalyses) > 0
           /\ InsertRejected({SyncRow(userId, newAnalyses[i]) :
                                i \in 1..Len(newAnalyses)}, ins)

\* newFolders of dataService.syncFolders (440-446)
SyncNewFolders(userId, folders, sel) ==
  LET existingIds ==
        IF sel = "ok"
        THEN {remoteFolders[k].id :
                k \in {j \in 1..Len(remoteFolders) : remoteFolders[j].user = userId}}
        ELSE {}
      IsNew(f) == f \notin existingIds
  IN SelectSeq(folders, IsNew)

FolderRows(userId, folders) ==
  [i \in 1..Len(folders) |-> [user |-> userId, id |-> folders[i]]]

\* dataService.syncFolders (437-462): the table afterwards
syncFolders(userId, folders, sel, ins) ==
  LET newFolders == SyncNewFolders(userId, folders, sel)
  IN IF Len(folders) = 0 \/ Len(newFolders) = 0 THEN remoteFolders
     ELSE InsertFolders(FolderRows(userId, newFolders), ins)

\* whether a remote call of that syncFolders run returned an error
SyncFoldersFailed(userId, folders, sel, ins) ==
  /\ Len(folders) > 0
  /\ \/ sel # "ok"
     \/ LET newFolders == SyncNewFolders(userId, folders, sel)
        IN /\ Len(newFolders) > 0
           /\ InsertFolders(FolderRows(userId, newFolders), ins) = remoteFolders

-----------------------------------------------------------------------------
(* What the rendered UI lets the user reach (App.tsx 475-733) *)

\* AnalysisView is rendered (App.tsx 475, 529, 698, 708)
AnalysisViewMounted(loading, m, result) ==
  ~loading /\ m # "history" /\ result # Null

\* the fullscreen flashcard modal of AnalysisView (AnalysisView.tsx 663-664)
FlashcardModalShown ==
  /\ AnalysisViewMounted(isDataLoading, mode, analysisResult)
  /\ analysisView.isFlashcardMode
  /\ VocabLen(analysisResult) > 0

\* the "Syncing your data..." screen replaces the whole UI (475-484); the
\* PracticeView modal (724-732) and the "Crafting native scenarios..." overlay
\* (700-705) cover it, and so does the flashcard modal of AnalysisView
UiFree ==
  /\ ~isDataLoading
  /\ practiceResult = <<>>
  /\ ~(status = "practicing" /\ analysisResult # Null /\ mode # "history")
  /\ ~FlashcardModalShown

InputFormShown == UiFree /\ mode # "history" /\ analysisResult = Null
AnalysisViewShown == UiFree /\ mode # "history" /\ analysisResult # Null
HistoryViewShown == UiFree /\ mode = "history"
PracticeViewShown == ~isDataLoading /\ practiceResult # <<>>

\* the state of a freshly mounted AnalysisView (AnalysisView.tsx 45-67)
InitialAnalysisView ==
  [notes |-> <<>>, isFlashcardMode |-> FALSE, flashcardIndex |-> 0,
   userAnswer |-> <<>>, answerResult |-> Null, showAnswer |-> FALSE,
   playingText |-> Null, viewMode |-> "list", categoryIndex |-> 0]

\* the initialNotes prop (App.tsx 712)
initialNotesOf(id, saved) ==
  IF id # NoId /\ \E i \in 1..Len(saved) : saved[i].id = id
  THEN saved[CHOOSE i \in 1..Len(saved) : saved[i].id = id].notes
  ELSE <<>>

\* ... is a new [] at every render of AppContent when nothing is found
InitialNotesFresh(id, saved) ==
  id = NoId \/ ~\E i \in 1..Len(saved) : saved[i].id = id

\* the React state of AppContent and of the AuthProvider: a change re-renders
appState ==
  << mode, inputText, fileName, topicInput, status, analysisResult, practiceResult,
     error, practiceQueue, practiceIndex, isGeneratingNext, savedAnalyses,
     analysisFolders, isDataLoading, currentAnalysisId, hasLoadedCloudData, user,
     authLoading >>

\* AnalysisView after a step of AppContent: unmounted, mounted anew with
\* useState(initialNotes) (AnalysisView.tsx 55), or kept, its notes replaced by
\* the effect on [initialNotes] (95-97) when that prop has changed; the
\* generateSpeech calls of an unmounted AnalysisView go on without it
AnalysisViewRendered ==
  /\ analysisView' =
       LET before == initialNotesOf(currentAnalysisId, savedAnalyses)
           after == initialNotesOf(currentAnalysisId', savedAnalyses')
       IN IF ~AnalysisViewMounted(isDataLoading', mode', analysisResult')
          THEN InitialAnalysisView
          ELSE IF ~AnalysisViewMounted(isDataLoading, mode, analysisResult)
          THEN [InitialAnalysisView EXCEPT !.notes = after]
          ELSE IF \/ after # before
                  \/ /\ appState' # appState
                     /\ InitialNotesFresh(currentAnalysisId', savedAnalyses')
          THEN [analysisView EXCEPT !.notes = after]
          ELSE analysisView
  /\ speeches' =
       IF /\ AnalysisViewMounted(isDataLoading, mode, analysisResult)
          /\ ~AnalysisViewMounted(isDataLoading', mode', analysisResult')
       THEN [i \in 1..Len(speeches) |-> [speeches[i] EXCEPT !.live = FALSE]]
       ELSE speeches

isAuthenticated == user # Null

\* isNextAvailable (App.tsx 472)
isNextAvailable == Len(practiceQueue) > 0 /\ practiceIndex < Len(practiceQueue)

\* the history of removals: not kept (the specifications that do not look at
\* it), or the set of ids removed so far
Unobserved == [observed |-> FALSE, ids |-> {}]
Observing(ids) == [observed |-> TRUE, ids |-> ids]
Removing(id) == IF removed.observed THEN Observing(removed.ids \cup {id}) ELSE removed

\* the handler that ran last; ok: no remote call of it returned an error
Did(op, id) == [op |-> op, id |-> id, ok |-> TRUE]
Other == Did("other", NoId)

\* a call of the generation service in flight: what it was called with (the text,
\* the topic, or the vocabulary items)
Request(kind, items) == [kind |-> kind, items |-> items]
RemoveAt(s, i) == SubSeq(s, 1, i - 1) \o SubSeq(s, i + 1, Len(s))

-----------------------------------------------------------------------------
(* Initial state: the values of the useState / useRef declarations         *)

Init ==
  /\ mode = "analyze_text"
  /\ inputText = <<>>
  /\ fileName = Null
  /\ topicInput = <<>>
  /\ status = "idle"
  /\ analysisResult = Null
  /\ practiceResult = <<>>
  /\ error = Null
  /\ practiceQueue = <<>>
  /\ practiceIndex = 0
  /\ isGeneratingNext = FALSE
  /\ savedAnalyses = <<>>
  /\ analysisFolders = <<>>
  /\ isDataLoading = FALSE
  /\ currentAnalysisId = NoId
  /\ hasLoadedCloudData = FALSE
  /\ user = Null
  /\ authLoading = TRUE
  /\ lsHistory = Missing
  /\ lsFolders = Missing
  /\ remoteAnalyses = {}
  /\ remoteFolders = <<>>
  /\ recons = <<>>
  /\ ops = <<>>
  /\ requests = <<>>
  /\ now = 0
  /\ nextId = 1
  /\ nextFolderId = 1
  /\ resultRefs = {}
  /\ last = Did("init", NoId)
  /\ mergesThisLogin = 0
  /\ analysisView = InitialAnalysisView
  /\ speeches = <<>>
  /\ removed = Unobserved

\* A page load after earlier ones, which saved analysis 1 at time 1 and may have
\* created folder 1; the clock has one tick left
EarlierAnalysis(f) == SavedAnalysis(1, 1, <<"a">>, Null, "R1", <<>>, f)

\* what the earlier page loads left in localStorage
EarlierCaches ==
  { [history |-> Missing, folders |-> Missing],
    [history |-> Stored(<<EarlierAnalysis(NoId)>>), folders |-> Stored(<<>>)],
    [history |-> Stored(<<EarlierAnalysis(1)>>), folders |-> Stored(<<1>>)] }

\* what the user's earlier logins, here or on another device, left in the remote
\* store
EarlierRemotes ==
  { [analyses |-> {}, folders |-> <<>>],
    [analyses |-> {AnalysisToRow("u1", EarlierAnalysis(1))},
     folders |-> <<[user |-> "u1", id |-> 1]>>] }

InitReturning ==
  /\ mode = "analyze_text"
  /\ inputText = <<>>
  /\ fileName = Null
  /\ topicInput = <<>>
  /\ status = "idle"
  /\ analysisResult = Null
  /\ practiceResult = <<>>
  /\ error = Null
  /\ practiceQueue = <<>>
  /\ practiceIndex = 0
  /\ isGeneratingNext = FALSE
  /\ savedAnalyses = <<>>
  /\ analysisFolders = <<>>
  /\ isDataLoading = FALSE
  /\ currentAnalysisId = NoId
  /\ hasLoadedCloudData = FALSE
  /\ user = Null
  /\ authLoading = TRUE
  /\ \E c \in EarlierCaches : lsHistory = c.history /\ lsFolders = c.folders
  /\ \E r \in EarlierRemotes : remoteAnalyses = r.analyses /\ remoteFolders = r.folders
  /\ recons = <<>>
  /\ ops = <<>>
  /\ requests = <<>>
  /\ now = MaxClock - 1
  /\ nextId = 2
  /\ nextFolderId = 2
  /\ resultRefs = {}
  /\ last = Did("init", NoId)
  /\ mergesThisLogin = 0
  /\ analysisView = InitialAnalysisView
  /\ speeches = <<>>
  /\ removed = Unobserved

-----------------------------------------------------------------------------
(* Input form (App.tsx 567-696) *)

\* textarea onChange (609-614)
SetInputText(t) ==
  /\ InputFormShown /\ mode = "analyze_text"
  /\ inputText' = t
  /\ last' = Other
  /\ UNCHANGED << mode, fileName, topicInput, status, analysisResult, practiceResult,
                  error, practiceQueue, practiceIndex, isGeneratingNext, savedAnalyses,
                  analysisFolders, isDataLoading, currentAnalysisId, hasLoadedCloudData,
                  user, authLoading, lsHistory, lsFolders, remoteAnalyses, remoteFolders,
                  recons, ops, requests, now, nextId, nextFolderId, resultRefs,
                  mergesThisLogin >>
  /\ AnalysisViewRendered
  /\ UNCHANGED removed

\* processFile with a readable text file (307-336): reader.onload
processFile(t, f) ==
  /\ InputFormShown /\ mode = "analyze_text"
  /\ inputText' = t
  /\ fileName' = f
  /\ error' = Null
  /\ last' = Other
  /\ UNCHANGED << mode, topicInput, status, analysisResult, practiceResult,
                  practiceQueue, practiceIndex, isGeneratingNext, savedAnalyses,
                  analysisFolders, isDataLoading, currentAnalysisId, hasLoadedCloudData,
                  user, authLoading, lsHistory, lsFolders, remoteAnalyses, remoteFolders,
                  recons, ops, requests, now, nextId, nextFolderId, resultRefs,
                  mergesThisLogin >>
  /\ AnalysisViewRendered
  /\ UNCHANGED removed

\* clearFile (365-368)
clearFile ==
  /\ InputFormShown /\ mode = "analyze_text" /\ fileName # Null
  /\ fileName' = Null
  /\ inputText' = <<>>
  /\ last' = Other
  /\ UNCHANGED << mode, topicInput, status, analysisResult, practiceResult, error,
                  practiceQueue, practiceIndex, isGeneratingNext, savedAnalyses,
                  analysisFolders, isDataLoading, currentAnalysisId, hasLoadedCloudData,
                  user, authLoading, lsHistory, lsFolders, remoteAnalyses, remoteFolders,
                  recons, ops, requests, now, nextId, nextFolderId, resultRefs,
                  mergesThisLogin >>
  /\ AnalysisViewRendered
  /\ UNCHANGED removed

\* topic input onChange / handleTopicClick (468-470, 667-671)
SetTopicInput(t) ==
  /\ InputFormShown /\ mode = "topic_strategy"
  /\ topicInput' = t
  /\ last' = Other
  /\ UNCHANGED << mode, inputText, fileName, status, analysisResult, practiceResult,
                  error, practiceQueue, practiceIndex, isGeneratingNext, savedAnalyses,
                  analysisFolders, isDataLoading, currentAnalysisId, hasLoadedCloudData,
                  user, authLoading, lsHistory, lsFolders, remoteAnalyses, remoteFolders,
                  recons, ops, requests, now, nextId, nextFolderId, resultRefs,
                  mergesThisLogin >>
  /\ AnalysisViewRendered
  /\ UNCHANGED removed

\* the mode buttons of the input form (550-563) and onOpenHistory (497)
SetMode(m) ==
  /\ \/ m = "history" /\ UiFree
     \/ m # "history" /\ InputFormShown
  /\ mode # m
  /\ mode' = m
  /\ last' = Other
  /\ UNCHANGED << inputText, fileName, topicInput, status, analysisResult,
                  practiceResult, error, practiceQueue, practiceIndex, isGeneratingNext,
                  savedAnalyses, analysisFolders, isDataLoading, currentAnalysisId,
                  hasLoadedCloudData, user, authLoading, lsHistory, lsFolders,
                  remoteAnalyses, remoteFolders, recons, ops, requests, now, nextId,
                  nextFolderId, resultRefs, mergesThisLogin >>
  /\ AnalysisViewRendered
  /\ UNCHANGED removed

-----------------------------------------------------------------------------
(* Analysis session state machine (App.tsx 370-408) *)

\* handleAnalyzeText up to its await (370-378); the button is disabled while
\* status is analyzing or the text is blank (640-643)
handleAnalyzeText ==
  /\ InputFormShown /\ mode = "analyze_text"
  /\ status # "analyzing" /\ Trim(inputText) # <<>>
  /\ Len(requests) < MaxRequests
  /\ IF Trim(inputText) = <<>>
     THEN UNCHANGED << status, error, analysisResult, requests, resultRefs >>
     ELSE /\ status' = "analyzing"
          /\ error' = Null
          /\ analysisResult' = Null
          /\ resultRefs' = {}
          /\ requests' = Append(requests, Request("analyze", inputText))
  /\ last' = Other
  /\ UNCHANGED << mode, inputText, fileName, topicInput, practiceResult,
                  practiceQueue, practiceIndex, isGeneratingNext, savedAnalyses,
                  analysisFolders, isDataLoading, currentAnalysisId, hasLoadedCloudData,
                  user, authLoading, lsHistory, lsFolders, remoteAnalyses, remoteFolders,
                  recons, ops, now, nextId, nextFolderId, mergesThisLogin >>
  /\ AnalysisViewRendered
  /\ UNCHANGED removed

\* handleTopicStrategy up to its await (390-398).  via = "button": the button,
\* disabled while status is analyzing or the topic is blank (676-678);
\* via = "enter": the Enter key in the topic input (673), never disabled
handleTopicStrategy(via) ==
  /\ InputFormShown /\ mode = "topic_strategy"
  /\ via = "button" => (status # "analyzing" /\ Trim(topicInput) # <<>>)
  /\ Len(requests) < MaxRequests
  /\ IF Trim(topicInput) = <<>>
     THEN /\ UNCHANGED << status, error, analysisResult, requests, resultRefs >>
          /\ last' = Did("topicBlank", NoId)
     ELSE /\ status' = "analyzing"
          /\ error' = Null
          /\ analysisResult' = Null
          /\ resultRefs' = {}
          /\ requests' = Append(requests, Request("topic", topicInput))
          /\ last' = Did("topic", NoId)
  /\ UNCHANGED << mode, inputText, fileName, topicInput, practiceResult,
                  practiceQueue, practiceIndex, isGeneratingNext, savedAnalyses,
                  analysisFolders, isDataLoading, currentAnalysisId, hasLoadedCloudData,
                  user, authLoading, lsHistory, lsFolders, remoteAnalyses, remoteFolders,
                  recons, ops, now, nextId, nextFolderId, mergesThisLogin >>
  /\ AnalysisViewRendered
  /\ UNCHANGED removed

\* analyzeText / generateTopicStrategy resolves (379-380, 399-400)
AnalysisResolved(i, r) ==
  /\ i \in 1..Len(requests) /\ requests[i].kind \in {"analyze", "topic"}
  /\ requests' = RemoveAt(requests, i)
  /\ analysisResult' = r
  /\ resultRefs' = {}
  /\ status' = "complete"
  /\ last' = Did("analysisResolved", NoId)
  /\ UNCHANGED << mode, inputText, fileName, topicInput, practiceResult, error,
                  practiceQueue, practiceIndex, isGeneratingNext, savedAnalyses,
                  analysisFolders, isDataLoading, currentAnalysisId, hasLoadedCloudData,
                  user, authLoading, lsHistory, lsFolders, remoteAnalyses, remoteFolders,
                  recons, ops, now, nextId, nextFolderId, mergesThisLogin >>
  /\ AnalysisViewRendered
  /\ UNCHANGED removed

\* a faulty catch that issues the request again and stays in analyzing
AnalysisRejectedRetrying(i) ==
  /\ i \in 1..Len(requests) /\ requests[i].kind \in {"analyze", "topic"}
  /\ requests' = Append(RemoveAt(requests, i), requests[i])
  /\ error' = "Failed to analyze text"
  /\ status' = "analyzing"
  /\ last' = Did("analysisRejected", NoId)
  /\ UNCHANGED << mode, inputText, fileName, topicInput, analysisResult,
                  practiceResult, practiceQueue, practiceIndex, isGeneratingNext,
                  savedAnalyses, analysisFolders, isDataLoading, currentAnalysisId,
                  hasLoadedCloudData, user, authLoading, lsHistory, lsFolders,
                  remoteAnalyses, remoteFolders, recons, ops, now, nextId,
                  nextFolderId, resultRefs, mergesThisLogin >>
  /\ AnalysisViewRendered
  /\ UNCHANGED removed

\* analyzeText / generateTopicStrategy rejects (384-387, 404-407)
AnalysisRejected(i) ==
  /\ i \in 1..Len(requests) /\ requests[i].kind \in {"analyze", "topic"}
  /\ requests' = RemoveAt(requests, i)
  /\ error' = IF requests[i].kind = "analyze" THEN "Failed to analyze text"
                                             ELSE "Failed to generate strategy"
  /\ status' = "idle"
  /\ last' = Did("analysisRejected", NoId)
  /\ UNCHANGED << mode, inputText, fileName, topicInput, analysisResult,
                  practiceResult, practiceQueue, practiceIndex, isGeneratingNext,
                  savedAnalyses, analysisFolders, isDataLoading, currentAnalysisId,
                  hasLoadedCloudData, user, authLoading, lsHistory, lsFolders,
                  remoteAnalyses, remoteFolders, recons, ops, now, nextId,
                  nextFolderId, resultRefs, mergesThisLogin >>
  /\ AnalysisViewRendered
  /\ UNCHANGED removed

\* the body of handleNewAnalysis (294-301): the session fields it assigns
NewAnalysisFields ==
  /\ analysisResult' = Null
  /\ inputText' = <<>>
  /\ fileName' = Null
  /\ currentAnalysisId' = NoId
  /\ mode' = "analyze_text"
  /\ status' = "idle"

\* handleNewAnalysis from the sidebar (App.tsx 492)
handleNewAnalysis ==
  /\ UiFree
  /\ NewAnalysisFields
  /\ resultRefs' = {}
  /\ last' = Did("newAnalysis", NoId)
  /\ UNCHANGED << topicInput, practiceResult, error, practiceQueue, practiceIndex,
                  isGeneratingNext, savedAnalyses, analysisFolders, isDataLoading,
                  hasLoadedCloudData, user, authLoading, lsHistory, lsFolders,
                  remoteAnalyses, remoteFolders, recons, ops, requests, now, nextId,
                  nextFolderId, mergesThisLogin >>
  /\ AnalysisViewRendered
  /\ UNCHANGED removed

\* loadAnalysis (205-213), from the sidebar or the history view
loadAnalysis(i) ==
  /\ UiFree
  /\ i \in 1..Len(savedAnalyses)
  /\ inputText' = savedAnalyses[i].inputText
  /\ analysisResult' = savedAnalyses[i].analysisResult
  /\ fileName' = savedAnalyses[i].fileName
  /\ currentAnalysisId' = savedAnalyses[i].id
  /\ mode' = "analyze_text"
  /\ status' = "complete"
  /\ resultRefs' = {savedAnalyses[i].id}
  /\ last' = Other
  /\ UNCHANGED << topicInput, practiceResult, error, practiceQueue, practiceIndex,
                  isGeneratingNext, savedAnalyses, analysisFolders, isDataLoading,
                  hasLoadedCloudData, user, authLoading, lsHistory, lsFolders,
                  remoteAnalyses, remoteFolders, recons, ops, requests, now, nextId,
                  nextFolderId, mergesThisLogin >>
  /\ AnalysisViewRendered
  /\ UNCHANGED removed

-----------------------------------------------------------------------------
(* Practice (App.tsx 410-460, 724-732) *)

\* what AnalysisView.handlePracticeClick (177-184) can pass: the selected items, in
\* vocabulary order
Selections(r) == {<<>>, <<Vocabulary(r)[1]>>, Vocabulary(r)}

\* handleGeneratePractice up to its await (411-436), called by
\* AnalysisView.handlePracticeClick
handleGeneratePractice(selectedVocab) ==
  /\ AnalysisViewShown
  /\ selectedVocab \in Selections(analysisResult)
  /\ Len(requests) < MaxRequests
  /\ status' = "practicing"
  /\ error' = Null
  /\ IF Len(selectedVocab) > 0
     THEN /\ practiceQueue' = <<>>
          /\ practiceIndex' = 0
          /\ requests' = Append(requests, Request("practice", selectedVocab))
     ELSE LET allVocab == Vocabulary(analysisResult)
          IN /\ practiceQueue' = allVocab
             /\ practiceIndex' = BATCH_SIZE
             /\ requests' = Append(requests,
                                   Request("practice", Slice(allVocab, 0, BATCH_SIZE)))
  /\ last' = Did("generatePractice", NoId)
  /\ UNCHANGED << mode, inputText, fileName, topicInput, analysisResult,
                  practiceResult, isGeneratingNext, savedAnalyses, analysisFolders,
                  isDataLoading, currentAnalysisId, hasLoadedCloudData, user,
                  authLoading, lsHistory, lsFolders, remoteAnalyses, remoteFolders,
                  recons, ops, now, nextId, nextFolderId, resultRefs, mergesThisLogin >>
  /\ AnalysisViewRendered
  /\ UNCHANGED removed

\* generatePractice of handleGeneratePractice resolves (435-436, 439-441)
PracticeResolved(i) ==
  /\ i \in 1..Len(requests) /\ requests[i].kind = "practice"
  /\ requests' = RemoveAt(requests, i)
  /\ practiceResult' = <<requests[i].items>>
  /\ status' = "complete"
  /\ last' = Did("practiceResolved", NoId)
  /\ UNCHANGED << mode, inputText, fileName, topicInput, analysisResult, error,
                  practiceQueue, practiceIndex, isGeneratingNext, savedAnalyses,
                  analysisFolders, isDataLoading, currentAnalysisId,
                  hasLoadedCloudData, user, authLoading, lsHistory, lsFolders,
                  remoteAnalyses, remoteFolders, recons, ops, now, nextId,
                  nextFolderId, resultRefs, mergesThisLogin >>
  /\ AnalysisViewRendered
  /\ UNCHANGED removed

\* a faulty catch that falls back to idle as the catch of an analysis does
PracticeRejectedIdle(i) ==
  /\ i \in 1..Len(requests) /\ requests[i].kind = "practice"
  /\ requests' = RemoveAt(requests, i)
  /\ error' = "Failed to generate practice"
  /\ status' = "idle"
  /\ last' = Did("practiceRejected", NoId)
  /\ UNCHANGED << mode, inputText, fileName, topicInput, analysisResult,
                  practiceResult, practiceQueue, practiceIndex, isGeneratingNext,
                  savedAnalyses, analysisFolders, isDataLoading, currentAnalysisId,
                  hasLoadedCloudData, user, authLoading, lsHistory, lsFolders,
                  remoteAnalyses, remoteFolders, recons, ops, now, nextId,
                  nextFolderId, resultRefs, mergesThisLogin >>
  /\ AnalysisViewRendered
  /\ UNCHANGED removed

\* generatePractice of handleGeneratePractice rejects (437-441)
PracticeRejected(i) ==
  /\ i \in 1..Len(requests) /\ requests[i].kind = "practice"
  /\ requests' = RemoveAt(requests, i)
  /\ error' = "Failed to generate practice"
  /\ status' = "complete"
  /\ last' = Did("practiceRejected", NoId)
  /\ UNCHANGED << mode, inputText, fileName, topicInput, analysisResult,
                  practiceResult, practiceQueue, practiceIndex, isGeneratingNext,
                  savedAnalyses, analysisFolders, isDataLoading, currentAnalysisId,
                  hasLoadedCloudData, user, authLoading, lsHistory, lsFolders,
                  remoteAnalyses, remoteFolders, recons, ops, now, nextId,
                  nextFolderId, resultRefs, mergesThisLogin >>
  /\ AnalysisViewRendered
  /\ UNCHANGED removed

\* handleNextPracticeBatch up to its await (445-452); the Next Batch button is
\* shown while isNextAvailable and disabled while isLoadingNext
\* (PracticeView.tsx 112-133)
handleNextPracticeBatch ==
  /\ PracticeViewShown /\ isNextAvailable /\ ~isGeneratingNext
  /\ Len(requests) < MaxRequests
  /\ IF practiceIndex >= Len(practiceQueue)
     THEN UNCHANGED << isGeneratingNext, requests >>
     ELSE /\ isGeneratingNext' = TRUE
          /\ requests' = Append(requests,
                Request("nextBatch",
                        Slice(practiceQueue, practiceIndex, practiceIndex + BATCH_SIZE)))
  /\ last' = Did("nextPracticeBatch", NoId)
  /\ UNCHANGED << mode, inputText, fileName, topicInput, status, analysisResult,
                  practiceResult, error, practiceQueue, practiceIndex, savedAnalyses,
                  analysisFolders, isDataLoading, currentAnalysisId,
                  hasLoadedCloudData, user, authLoading, lsHistory, lsFolders,
                  remoteAnalyses, remoteFolders, recons, ops, now, nextId,
                  nextFolderId, resultRefs, mergesThisLogin >>
  /\ AnalysisViewRendered
  /\ UNCHANGED removed

\* a faulty success branch that shows the batch and leaves the cursor where it was
NextBatchResolvedStaying(i) ==
  /\ i \in 1..Len(requests) /\ requests[i].kind = "nextBatch"
  /\ requests' = RemoveAt(requests, i)
  /\ practiceResult' = <<requests[i].items>>
  /\ isGeneratingNext' = FALSE
  /\ last' = Did("nextBatchResolved", NoId)
  /\ UNCHANGED << mode, inputText, fileName, topicInput, status, analysisResult, error,
                  practiceQueue, practiceIndex, savedAnalyses, analysisFolders,
                  isDataLoading, currentAnalysisId, hasLoadedCloudData, user,
                  authLoading, lsHistory, lsFolders, remoteAnalyses, remoteFolders,
                  recons, ops, now, nextId, nextFolderId, resultRefs,
                  mergesThisLogin >>
  /\ AnalysisViewRendered
  /\ UNCHANGED removed

\* generatePractice of handleNextPracticeBatch resolves (452-454, 457-459)
NextBatchResolved(i) ==
  /\ i \in 1..Len(requests) /\ requests[i].kind = "nextBatch"
  /\ requests' = RemoveAt(requests, i)
  /\ practiceResult' = <<requests[i].items>>
  /\ practiceIndex' = practiceIndex + BATCH_SIZE
  /\ isGeneratingNext' = FALSE
  /\ last' = Did("nextBatchResolved", NoId)
  /\ UNCHANGED << mode, inputText, fileName, topicInput, status, analysisResult, error,
                  practiceQueue, savedAnalyses, analysisFolders, isDataLoading,
                  currentAnalysisId, hasLoadedCloudData, user, authLoading, lsHistory,
                  lsFolders, remoteAnalyses, remoteFolders, recons, ops, now, nextId,
                  nextFolderId, resultRefs, mergesThisLogin >>
  /\ AnalysisViewRendered
  /\ UNCHANGED removed

\* a faulty catch that advances the cursor as a success does
NextBatchRejectedAdvancing(i) ==
  /\ i \in 1..Len(requests) /\ requests[i].kind = "nextBatch"
  /\ requests' = RemoveAt(requests, i)
  /\ practiceIndex' = practiceIndex + BATCH_SIZE
  /\ isGeneratingNext' = FALSE
  /\ last' = Did("nextBatchRejected", NoId)
  /\ UNCHANGED << mode, inputText, fileName, topicInput, status, analysisResult,
                  practiceResult, error, practiceQueue, savedAnalyses,
                  analysisFolders, isDataLoading, currentAnalysisId,
                  hasLoadedCloudData, user, authLoading, lsHistory, lsFolders,
                  remoteAnalyses, remoteFolders, recons, ops, now, nextId,
                  nextFolderId, resultRefs, mergesThisLogin >>
  /\ AnalysisViewRendered
  /\ UNCHANGED removed

\* generatePractice of handleNextPracticeBatch rejects (455-459)
NextBatchRejected(i) ==
  /\ i \in 1..Len(requests) /\ requests[i].kind = "nextBatch"
  /\ requests' = RemoveAt(requests, i)
  /\ isGeneratingNext' = FALSE
  /\ last' = Did("nextBatchRejected", NoId)
  /\ UNCHANGED << mode, inputText, fileName, topicInput, status, analysisResult,
                  practiceResult, error, practiceQueue, practiceIndex, savedAnalyses,
                  analysisFolders, isDataLoading, currentAnalysisId,
                  hasLoadedCloudData, user, authLoading, lsHistory, lsFolders,
                  remoteAnalyses, remoteFolders, recons, ops, now, nextId,
                  nextFolderId, resultRefs, mergesThisLogin >>
  /\ AnalysisViewRendered
  /\ UNCHANGED removed

\* onClose of PracticeView (App.tsx 727)
ClosePractice ==
  /\ PracticeViewShown
  /\ practiceResult' = <<>>
  /\ last' = Did("closePractice", NoId)
  /\ UNCHANGED << mode, inputText, fileName, topicInput, status, analysisResult, error,
                  practiceQueue, practiceIndex, isGeneratingNext, savedAnalyses,
                  analysisFolders, isDataLoading, currentAnalysisId,
                  hasLoadedCloudData, user, authLoading, lsHistory, lsFolders,
                  remoteAnalyses, remoteFolders, recons, ops, requests, now, nextId,
                  nextFolderId, resultRefs, mergesThisLogin >>
  /\ AnalysisViewRendered
  /\ UNCHANGED removed

-----------------------------------------------------------------------------
(* Saved analyses and folders (App.tsx 143-292) *)

\* a handler suspended at the await of a dataService call: the call, and what
\* the handler still does when it returns
Op(kind, userId, row, id, folder, rest, reset) ==
  [kind |-> kind, user |-> userId, row |-> row, id |-> id, folder |-> folder,
   rest |-> rest, reset |-> reset]

CanCallRemote == isAuthenticated => Len(ops) < MaxOps

\* a faulty predicate of the find: the text alone decides, with or without a
\* fileName
MatchesSourceByTextOnly(a) == a.inputText = inputText

\* the predicate of savedAnalyses.find in saveAnalysis (149-158)
MatchesSource(a) ==
  IF fileName # Null /\ a.fileName # Null THEN a.fileName = fileName
  ELSE IF fileName = Null /\ a.fileName = Null THEN a.inputText = inputText
  ELSE FALSE

\* index of existingAnalysis in savedAnalyses, 0 if there is none
ExistingIndex ==
  IF \E i \in 1..Len(savedAnalyses) : MatchesSource(savedAnalyses[i])
  THEN CHOOSE i \in 1..Len(savedAnalyses) :
         /\ MatchesSource(savedAnalyses[i])
         /\ \A j \in 1..(i - 1) : ~MatchesSource(savedAnalyses[j])
  ELSE 0

\* updatedAnalysis (162-170)
UpdatedAnalysis(existing, notes) ==
  [existing EXCEPT !.date = now + 1,
                   !.inputText = inputText,
                   !.analysisResult = analysisResult,
                   !.fileName = fileName,
                   !.notes = IF Len(notes) > 0 THEN notes ELSE existing.notes]

\* a faulty newHistory of the update branch: the updated entry is added in front
\* and the existing one stays
UpdatedHistoryPrepending(existing, updated) == <<updated>> \o savedAnalyses

\* newHistory of the update branch (172-174)
UpdatedHistory(existing, updated) ==
  [i \in 1..Len(savedAnalyses) |->
     IF savedAnalyses[i].id = existing.id THEN updated ELSE savedAnalyses[i]]

\* newAnalysis (184-192): a fresh id, no folderId
NewAnalysis(notes) ==
  SavedAnalysis(nextId, now + 1, inputText, fileName, analysisResult, notes, NoId)

\* newHistory of the insert branch (194)
InsertedHistory(new) == <<new>> \o savedAnalyses

\* saveAnalysis (143-203), called by AnalysisView.handleSaveAnalysisClick
saveAnalysis(notes) ==
  /\ AnalysisViewShown
  /\ analysisResult # Null
  /\ now < MaxClock
  /\ CanCallRemote
  /\ now' = now + 1
  /\ IF ExistingIndex # 0
     THEN LET existing == savedAnalyses[ExistingIndex]
              updated == UpdatedAnalysis(existing, notes)
              newHistory == UpdatedHistory(existing, updated)
          IN /\ savedAnalyses' = newHistory
             /\ lsHistory' = Stored(newHistory)
             /\ ops' = IF isAuthenticated
                       THEN Append(ops, Op("updateAnalysis", user, <<updated>>,
                                           updated.id, NoId, <<>>, FALSE))
                       ELSE ops
             /\ resultRefs' = resultRefs \cup {existing.id}
             /\ last' = Did("saveUpdate", existing.id)
             /\ UNCHANGED nextId
     ELSE /\ nextId <= MaxIds
          /\ LET new == NewAnalysis(notes)
                 newHistory == InsertedHistory(new)
             IN /\ savedAnalyses' = newHistory
                /\ lsHistory' = Stored(newHistory)
                /\ ops' = IF isAuthenticated
                          THEN Append(ops, Op("saveAnalysis", user, <<new>>,
                                              new.id, NoId, <<>>, FALSE))
                          ELSE ops
                /\ resultRefs' = resultRefs \cup {new.id}
                /\ last' = Did("saveInsert", new.id)
          /\ nextId' = nextId + 1
  /\ UNCHANGED << mode, inputText, fileName, topicInput, status, analysisResult,
                  practiceResult, error, practiceQueue, practiceIndex, isGeneratingNext,
                  analysisFolders, isDataLoading, currentAnalysisId, hasLoadedCloudData,
                  user, authLoading, lsFolders, remoteAnalyses, remoteFolders, recons,
                  requests, nextFolderId, mergesThisLogin >>
  /\ AnalysisViewRendered
  /\ UNCHANGED removed

\* newHistory of removeAnalysis (216)
WithoutId(history, id) ==
  LET Keep(a) == a.id # id IN SelectSeq(history, Keep)

\* the test of removeAnalysis (226): the removed entry carries the displayed result
RemovesDisplayed(id) == analysisResult # Null /\ id \in resultRefs

\* removeAnalysis (215-229), from the sidebar or the history view
removeAnalysis(id) ==
  /\ UiFree
  /\ id \in Ids(savedAnalyses)
  /\ CanCallRemote
  /\ savedAnalyses' = WithoutId(savedAnalyses, id)
  /\ lsHistory' = Stored(WithoutId(savedAnalyses, id))
  /\ last' = Other
  /\ IF isAuthenticated
     THEN /\ ops' = Append(ops, Op("deleteAnalysis", user, <<>>, id, NoId, <<>>,
                                   RemovesDisplayed(id)))
          /\ resultRefs' = resultRefs \ {id}
          /\ UNCHANGED << analysisResult, inputText, fileName, currentAnalysisId,
                          mode, status >>
     ELSE /\ UNCHANGED ops
          /\ IF RemovesDisplayed(id)
             THEN NewAnalysisFields /\ resultRefs' = {}
             ELSE /\ resultRefs' = resultRefs \ {id}
                  /\ UNCHANGED << analysisResult, inputText, fileName,
                                  currentAnalysisId, mode, status >>
  /\ UNCHANGED << topicInput, practiceResult, error, practiceQueue, practiceIndex,
                  isGeneratingNext, analysisFolders, isDataLoading, hasLoadedCloudData,
                  user, authLoading, lsFolders, remoteAnalyses, remoteFolders, recons,
                  requests, now, nextId, nextFolderId, mergesThisLogin >>
  /\ AnalysisViewRendered
  /\ removed' = Removing(id)

\* createFolder (232-247), called by HistoryView.handleCreateFolder
createFolder ==
  /\ HistoryViewShown
  /\ nextFolderId <= MaxFolderIds
  /\ CanCallRemote
  /\ LET newFolders == Append(analysisFolders, nextFolderId)
     IN /\ analysisFolders' = newFolders
        /\ lsFolders' = Stored(newFolders)
  /\ nextFolderId' = nextFolderId + 1
  /\ ops' = IF isAuthenticated
            THEN Append(ops, Op("createFolder", user, <<>>, NoId, nextFolderId,
                                <<>>, FALSE))
            ELSE ops
  /\ last' = Other
  /\ UNCHANGED << mode, inputText, fileName, topicInput, status, analysisResult,
                  practiceResult, error, practiceQueue, practiceIndex, isGeneratingNext,
                  savedAnalyses, isDataLoading, currentAnalysisId, hasLoadedCloudData,
                  user, authLoading, lsHistory, remoteAnalyses, remoteFolders, recons,
                  requests, now, nextId, resultRefs, mergesThisLogin >>
  /\ AnalysisViewRendered
  /\ UNCHANGED removed

\* newFolders of deleteFolder (261)
FoldersWithout(folderId) ==
  LET Keep(f) == f # folderId IN SelectSeq(analysisFolders, Keep)

\* a faulty map that uncategorizes every analysis
UncategorizedEvery(folderId) ==
  [i \in 1..Len(savedAnalyses) |-> [savedAnalyses[i] EXCEPT !.folderId = NoId]]

\* newAnalyses of deleteFolder (266-268)
Uncategorized(folderId) ==
  [i \in 1..Len(savedAnalyses) |->
     IF savedAnalyses[i].folderId = folderId
     THEN [savedAnalyses[i] EXCEPT !.folderId = NoId]
     ELSE savedAnalyses[i]]

\* analysesToUpdate of deleteFolder (275), as ids
AnalysesToUpdate(folderId) ==
  LET InFolder(a) == a.folderId = folderId
      members == SelectSeq(savedAnalyses, InFolder)
  IN [i \in 1..Len(members) |-> members[i].id]

\* deleteFolder (259-280) up to its first await, called by HistoryView.handleDeleteFolder
deleteFolder(folderId) ==
  /\ HistoryViewShown
  /\ folderId \in Range(analysisFolders)
  /\ CanCallRemote
  /\ analysisFolders' = FoldersWithout(folderId)
  /\ lsFolders' = Stored(FoldersWithout(folderId))
  /\ savedAnalyses' = Uncategorized(folderId)
  /\ lsHistory' = Stored(Uncategorized(folderId))
  /\ ops' = IF isAuthenticated
            THEN Append(ops, Op("deleteFolder", user, <<>>, NoId, folderId,
                                AnalysesToUpdate(folderId), FALSE))
            ELSE ops
  /\ last' = Did("deleteFolder", folderId)
  /\ UNCHANGED << mode, inputText, fileName, topicInput, status, analysisResult,
                  practiceResult, error, practiceQueue, practiceIndex, isGeneratingNext,
                  isDataLoading, currentAnalysisId, hasLoadedCloudData, user,
                  authLoading, remoteAnalyses, remoteFolders, recons, requests, now,
                  nextId, nextFolderId, resultRefs, mergesThisLogin >>
  /\ AnalysisViewRendered
  /\ UNCHANGED removed

\* newAnalyses of moveAnalysisToFolder (283-285)
Moved(analysisId, folderId) ==
  [i \in 1..Len(savedAnalyses) |->
     IF savedAnalyses[i].id = analysisId
     THEN [savedAnalyses[i] EXCEPT !.folderId = folderId]
     ELSE savedAnalyses[i]]

\* moveAnalysisToFolder (282-292), called by HistoryView.handleFolderDrop with a
\* displayed folder and by handleUncategorizedDrop with null
moveAnalysisToFolder(analysisId, folderId) ==
  /\ HistoryViewShown
  /\ analysisId \in Ids(savedAnalyses)
  /\ folderId \in Range(analysisFolders) \cup {NoId}
  /\ CanCallRemote
  /\ savedAnalyses' = Moved(analysisId, folderId)
  /\ lsHistory' = Stored(Moved(analysisId, folderId))
  /\ ops' = IF isAuthenticated
            THEN Append(ops, Op("updateAnalysisFolder", user, <<>>, analysisId,
                                folderId, <<>>, FALSE))
            ELSE ops
  /\ last' = Other
  /\ UNCHANGED << mode, inputText, fileName, topicInput, status, analysisResult,
                  practiceResult, error, practiceQueue, practiceIndex, isGeneratingNext,
                  analysisFolders, isDataLoading, currentAnalysisId, hasLoadedCloudData,
                  user, authLoading, lsFolders, remoteAnalyses, remoteFolders, recons,
                  requests, now, nextId, nextFolderId, resultRefs, mergesThisLogin >>
  /\ AnalysisViewRendered
  /\ UNCHANGED removed

-----------------------------------------------------------------------------
(* The dataService calls the handlers above await (dataService.ts) *)

\* a faulty update that matches the id alone and not the user
UpdateAnalysisRowsOfAnyUser(userId, a, out) ==
  IF out = "ok"
  THEN {IF r.id = a.id THEN AnalysisToRow(userId, a) ELSE r : r \in remoteAnalyses}
  ELSE remoteAnalyses

\* saved_analyses after updateAnalysis (147-161)
UpdateAnalysisRows(userId, a, out) ==
  IF out = "ok"
  THEN {IF r.id = a.id /\ r.user = userId THEN AnalysisToRow(userId, a) ELSE r :
          r \in remoteAnalyses}
  ELSE remoteAnalyses

\* saved_analyses after deleteAnalysis (178-182)
DeleteAnalysisRows(userId, id, out) ==
  IF out = "ok" THEN {r \in remoteAnalyses : ~(r.id = id /\ r.user = userId)}
  ELSE remoteAnalyses

\* saved_analyses after updateAnalysisFolder (420-424)
UpdateAnalysisFolderRows(userId, id, folderId, out) ==
  IF out = "ok"
  THEN {IF r.id = id /\ r.user = userId THEN [r EXCEPT !.folderId = folderId] ELSE r :
          r \in remoteAnalyses}
  ELSE remoteAnalyses

\* analysis_folders after deleteFolder (400-404)
DeleteFolderRows(userId, folderId, out) ==
  IF out = "ok"
  THEN LET Keep(r) == ~(r.id = folderId /\ r.user = userId)
       IN SelectSeq(remoteFolders, Keep)
  ELSE remoteFolders

\* the rest of deleteFolder's loop (276-278) after one call returned
NextFolderUpdate(op) ==
  Op("updateAnalysisFolder", op.user, <<>>, Head(op.rest), NoId, Tail(op.rest), FALSE)

\* a dataService call of a suspended handler returns, and the handler goes on to
\* its next await or to its end
RemoteCallReturned(i, out) ==
  /\ i \in 1..Len(ops)
  /\ LET op == ops[i] IN
     /\ remoteAnalyses' =
          CASE op.kind = "saveAnalysis" ->
                 InsertAnalyses({AnalysisToRow(op.user, op.row[1])}, out)
            [] op.kind = "updateAnalysis" ->
                 UpdateAnalysisRows(op.user, op.row[1], out)
            [] op.kind = "deleteAnalysis" ->
                 DeleteAnalysisRows(op.user, op.id, out)
            [] op.kind = "updateAnalysisFolder" ->
                 UpdateAnalysisFolderRows(op.user, op.id, op.folder, out)
            [] OTHER -> remoteAnalyses
     /\ remoteFolders' =
          CASE op.kind = "createFolder" ->
                 InsertFolders(<<[user |-> op.user, id |-> op.folder]>>, out)
            [] op.kind = "deleteFolder" ->
                 DeleteFolderRows(op.user, op.folder, out)
            [] OTHER -> remoteFolders
     /\ ops' = IF op.kind \in {"deleteFolder", "updateAnalysisFolder"} /\ op.rest # <<>>
               THEN [ops EXCEPT ![i] = NextFolderUpdate(op)]
               ELSE RemoveAt(ops, i)
     /\ IF op.kind = "deleteAnalysis" /\ op.reset
        THEN NewAnalysisFields /\ resultRefs' = {}
        ELSE UNCHANGED << analysisResult, inputText, fileName, currentAnalysisId,
                          mode, status, resultRefs >>
     /\ last' = Other
  /\ UNCHANGED << topicInput, practiceResult, error, practiceQueue, practiceIndex,
                  isGeneratingNext, savedAnalyses, analysisFolders, isDataLoading,
                  hasLoadedCloudData, user, authLoading, lsHistory, lsFolders, recons,
                  requests, now, nextId, nextFolderId, mergesThisLogin >>
  /\ AnalysisViewRendered
  /\ UNCHANGED removed

-----------------------------------------------------------------------------
(* AnalysisView (AnalysisView.tsx): steps of the component change its own     *)
(* state only                                                               *)

\* a Note is identified by its generated id (AnalysisView.tsx 156)
NoteIds == 1..MaxNotes

RECURSIVE Without(_, _)
\* prev.filter(n => n.id !== id)
Without(notes, id) ==
  IF notes = <<>> THEN <<>>
  ELSE IF Head(notes) = id THEN Without(Tail(notes), id)
  ELSE <<Head(notes)>> \o Without(Tail(notes), id)

NotesOf(saved) == UNION {Range(saved[i].notes) : i \in 1..Len(saved)}

AppUnchanged ==
  UNCHANGED << mode, inputText, fileName, topicInput, status, analysisResult,
               practiceResult, error, practiceQueue, practiceIndex, isGeneratingNext,
               savedAnalyses, analysisFolders, isDataLoading, currentAnalysisId,
               hasLoadedCloudData, user, authLoading, lsHistory, lsFolders,
               remoteAnalyses, remoteFolders, recons, ops, requests, now, nextId,
               nextFolderId, resultRefs, mergesThisLogin, removed >>

\* addNote (154-164), from the word lookup popup: a note with a new id, first
addNote(id) ==
  /\ AnalysisViewShown /\ ~analysisView.isFlashcardMode
  /\ id \in NoteIds \ (Range(analysisView.notes) \cup NotesOf(savedAnalyses))
  /\ analysisView' = [analysisView EXCEPT !.notes = <<id>> \o @]
  /\ last' = Did("addNote", id)
  /\ AppUnchanged /\ UNCHANGED speeches

\* removeNote (166-168), the delete button of a note in NotesSidebar (35-41)
removeNote(id) ==
  /\ AnalysisViewShown /\ ~analysisView.isFlashcardMode
  /\ id \in Range(analysisView.notes)
  /\ analysisView' = [analysisView EXCEPT !.notes = Without(@, id)]
  /\ last' = Did("removeNote", id)
  /\ AppUnchanged /\ UNCHANGED speeches

\* handleSaveAnalysisClick (198-202): onSaveAnalysis(notes); the "saved" badge
\* it shows for two seconds is left out
handleSaveAnalysisClick ==
  /\ ~analysisView.isFlashcardMode
  /\ saveAnalysis(analysisView.notes)

\* a generateSpeech call in flight: the handler awaiting it, the text, and
\* whether the AnalysisView that issued it is still mounted
Speech(by, text) == [by |-> by, text |-> text, live |-> TRUE]

\* the flashcard modal is rendered with a card: data.vocabulary[flashcardIndex]
\* (AnalysisView.tsx 681) is an item
FlashcardOpen ==
  /\ FlashcardModalShown
  /\ practiceResult = <<>>
  /\ analysisView.flashcardIndex < VocabLen(analysisResult)

\* data.vocabulary[flashcardIndex]
CurrentItem == Vocabulary(analysisResult)[analysisView.flashcardIndex + 1]

\* openFlashcardMode (205-211), the button of the list view (363-364)
openFlashcardMode ==
  /\ AnalysisViewShown
  /\ analysisView' = [analysisView EXCEPT !.isFlashcardMode = TRUE,
                                          !.flashcardIndex = 0,
                                          !.userAnswer = <<>>,
                                          !.answerResult = Null,
                                          !.showAnswer = FALSE]
  /\ last' = Did("openFlashcardMode", NoId)
  /\ AppUnchanged /\ UNCHANGED speeches

\* closeFlashcardMode (213-218)
closeFlashcardMode ==
  /\ FlashcardOpen
  /\ analysisView' = [analysisView EXCEPT !.isFlashcardMode = FALSE,
                                          !.userAnswer = <<>>,
                                          !.answerResult = Null,
                                          !.showAnswer = FALSE]
  /\ last' = Did("closeFlashcardMode", NoId)
  /\ AppUnchanged /\ UNCHANGED speeches

\* handleFlashcardNext (220-227)
handleFlashcardNext ==
  /\ FlashcardOpen
  /\ analysisView' =
       IF analysisView.flashcardIndex < VocabLen(analysisResult) - 1
       THEN [analysisView EXCEPT !.flashcardIndex = @ + 1,
                                 !.userAnswer = <<>>,
                                 !.answerResult = Null,
                                 !.showAnswer = FALSE]
       ELSE analysisView
  /\ last' = Did("flashcardNext", NoId)
  /\ AppUnchanged /\ UNCHANGED speeches

\* handleFlashcardPrev (229-236)
handleFlashcardPrev ==
  /\ FlashcardOpen
  /\ analysisView' =
       IF analysisView.flashcardIndex > 0
       THEN [analysisView EXCEPT !.flashcardIndex = @ - 1,
                                 !.userAnswer = <<>>,
                                 !.answerResult = Null,
                                 !.showAnswer = FALSE]
       ELSE analysisView
  /\ last' = Did("flashcardPrev", NoId)
  /\ AppUnchanged /\ UNCHANGED speeches

\* the List / Flashcards switch of the vocabulary section (347, 353)
setViewMode(m) ==
  /\ AnalysisViewShown
  /\ analysisView' = [analysisView EXCEPT !.viewMode = m]
  /\ last' = Did("setViewMode", NoId)
  /\ AppUnchanged /\ UNCHANGED speeches

\* the card row of a category is rendered in the flashcard view of the
\* vocabulary section (567-573); the vocabulary of a result token is taken to
\* be of one category, so categoryIndices (58) has one entry, categoryIndex
CategoryCardsShown ==
  /\ AnalysisViewShown
  /\ analysisView.viewMode = "flashcard"
  /\ VocabLen(analysisResult) > 0

\* handlePrevCard (269-275), called with items.length (628)
handlePrevCard ==
  /\ CategoryCardsShown
  /\ analysisView' =
       [analysisView EXCEPT !.categoryIndex =
          (@ - 1 + VocabLen(analysisResult)) % VocabLen(analysisResult)]
  /\ last' = Did("prevCard", NoId)
  /\ AppUnchanged /\ UNCHANGED speeches

\* handleNextCard (277-283), called with items.length (637)
handleNextCard ==
  /\ CategoryCardsShown
  /\ analysisView' =
       [analysisView EXCEPT !.categoryIndex =
          (@ + 1) % VocabLen(analysisResult)]
  /\ last' = Did("nextCard", NoId)
  /\ AppUnchanged /\ UNCHANGED speeches

\* the answer input of the card (718-722), shown until the answer is
SetUserAnswer(t) ==
  /\ FlashcardOpen /\ ~analysisView.showAnswer
  /\ analysisView' = [analysisView EXCEPT !.userAnswer = t]
  /\ last' = Other
  /\ AppUnchanged /\ UNCHANGED speeches

\* handleCheckFlashcardAnswer up to its await (238-245), from the Check button
\* or the Enter key of the input (723); isCorrect: the outcome of comparing the
\* answer with the term
handleCheckFlashcardAnswer(isCorrect) ==
  /\ FlashcardOpen /\ ~analysisView.showAnswer
  /\ Len(speeches) < MaxSpeeches
  /\ IF Trim(analysisView.userAnswer) = <<>>
     THEN UNCHANGED << analysisView, speeches >>
     ELSE /\ analysisView' =
               [analysisView EXCEPT
                  !.answerResult = IF isCorrect THEN "correct" ELSE "incorrect",
                  !.showAnswer = TRUE]
          /\ speeches' = Append(speeches, Speech("checkAnswer", CurrentItem))
  /\ last' = Did("checkAnswer", NoId)
  /\ AppUnchanged

\* handleSkipFlashcard up to its await (251-256)
handleSkipFlashcard ==
  /\ FlashcardOpen /\ ~analysisView.showAnswer
  /\ Len(speeches) < MaxSpeeches
  /\ analysisView' = [analysisView EXCEPT !.answerResult = "incorrect",
                                          !.showAnswer = TRUE]
  /\ speeches' = Append(speeches, Speech("skip", CurrentItem))
  /\ last' = Did("skip", NoId)
  /\ AppUnchanged

\* handlePlayAudio up to its await (186-192), from a play button of the list
\* (502, 547, 593) or of the shown answer of a card (776)
handlePlayAudio(text) ==
  /\ \/ AnalysisViewShown /\ text \in Range(Vocabulary(analysisResult))
     \/ FlashcardOpen /\ analysisView.showAnswer /\ text = CurrentItem
  /\ Len(speeches) < MaxSpeeches
  /\ IF analysisView.playingText # Null
     THEN UNCHANGED << analysisView, speeches >>
     ELSE /\ analysisView' = [analysisView EXCEPT !.playingText = text]
          /\ speeches' = Append(speeches, Speech("playAudio", text))
  /\ last' = Did("playAudio", NoId)
  /\ AppUnchanged

\* generateSpeech (part_001 271-288) resolves: the finally of handlePlayAudio
\* (193-195); the other two handlers have nothing left to do
SpeechReturned(i) ==
  /\ i \in 1..Len(speeches)
  /\ speeches' = RemoveAt(speeches, i)
  /\ analysisView' = IF speeches[i].by = "playAudio" /\ speeches[i].live
                     THEN [analysisView EXCEPT !.playingText = Null]
                     ELSE analysisView
  /\ last' = Did("speechReturned", NoId)
  /\ AppUnchanged

-----------------------------------------------------------------------------
(* Authentication and the initial data load (part_000 26-68, App.tsx 65-141) *)

\* a running loadCloudData(userId): where it is suspended, the localAnalyses and
\* localFolders it read and has not used yet, and whether a remote call of it
\* failed
Recon(userId, pc, localAnalyses, localFolders, failed) ==
  [user |-> userId, pc |-> pc, localAnalyses |-> localAnalyses,
   localFolders |-> localFolders, failed |-> failed]

\* loadLocalData (65-83): an absent entry is skipped (67, 76) and the parse
\* error of a corrupt one is caught and logged (70-72, 79-81); both leave the
\* state as it is
LocalHistory == IF Parses(lsHistory) THEN lsHistory.val ELSE savedAnalyses
LocalFolders == IF Parses(lsFolders) THEN lsFolders.val ELSE analysisFolders

loadLocalData ==
  /\ savedAnalyses' = LocalHistory
  /\ analysisFolders' = LocalFolders
  /\ resultRefs' = IF Parses(lsHistory) THEN {} ELSE resultRefs

\* the guard of the initial-data-load effect (134)
ShouldLoadCloudData(newUser) == newUser # Null /\ ~hasLoadedCloudData

\* the effect of App.tsx 131-141, run after the auth state became
\* (newUser, authLoading = FALSE)
InitialDataLoad(newUser) ==
  IF ShouldLoadCloudData(newUser)
  THEN /\ Len(recons) < MaxRecons
       /\ hasLoadedCloudData' = TRUE
       /\ isDataLoading' = TRUE
       /\ recons' = Append(recons, Recon(newUser, "fetch", <<>>, <<>>, FALSE))
       /\ mergesThisLogin' = mergesThisLogin + 1
       /\ UNCHANGED << savedAnalyses, analysisFolders, resultRefs >>
  ELSE IF newUser = Null
  THEN /\ hasLoadedCloudData' = FALSE
       /\ loadLocalData
       /\ mergesThisLogin' = 0
       /\ UNCHANGED << isDataLoading, recons >>
  ELSE UNCHANGED << hasLoadedCloudData, isDataLoading, recons, mergesThisLogin,
                    savedAnalyses, analysisFolders, resultRefs >>

\* initAuth resolving or the onAuthStateChange callback (part_000 28-47): the
\* session's user (a new object each time) or null
onAuthStateChange(newUser) ==
  /\ newUser # Null \/ user # Null \/ authLoading
  /\ user' = newUser
  /\ authLoading' = FALSE
  /\ InitialDataLoad(newUser)
  /\ last' = Other
  /\ UNCHANGED << mode, inputText, fileName, topicInput, status, analysisResult,
                  practiceResult, error, practiceQueue, practiceIndex, isGeneratingNext,
                  currentAnalysisId, lsHistory, lsFolders, remoteAnalyses,
                  remoteFolders, ops, requests, now, nextId, nextFolderId >>
  /\ AnalysisViewRendered
  /\ UNCHANGED removed

\* signOut (part_000 64-68), from the sidebar
signOut ==
  /\ UiFree /\ user # Null /\ ~authLoading
  /\ user' = Null
  /\ InitialDataLoad(Null)
  /\ last' = Other
  /\ UNCHANGED << mode, inputText, fileName, topicInput, status, analysisResult,
                  practiceResult, error, practiceQueue, practiceIndex, isGeneratingNext,
                  currentAnalysisId, authLoading, lsHistory, lsFolders, remoteAnalyses,
                  remoteFolders, ops, requests, now, nextId, nextFolderId >>
  /\ AnalysisViewRendered
  /\ UNCHANGED removed

-----------------------------------------------------------------------------
(* loadCloudData (App.tsx 86-128), one action per await *)

\* what a finished loadCloudData leaves for observation
DidLoadCloudData(failed, threw) ==
  [op |-> IF threw THEN "loadCloudDataThrew" ELSE "loadCloudData", id |-> NoId,
   ok |-> ~failed]

\* catch and finally (121-127) of the call recons[i]
LoadCloudDataThrew(i) ==
  /\ loadLocalData
  /\ isDataLoading' = FALSE
  /\ recons' = RemoveAt(recons, i)
  /\ last' = DidLoadCloudData(TRUE, TRUE)
  /\ UNCHANGED << lsHistory, lsFolders, remoteAnalyses, remoteFolders >>

\* recordVisit and the first fetches return (90-95); the local cache is read
\* (98-99), JSON.parse throwing on a corrupt entry, and syncAnalyses is entered
CloudFetched(i, out) ==
  /\ i \in 1..Len(recons) /\ recons[i].pc = "fetch"
  /\ IF out = "throw" \/ lsHistory.corrupt \/ lsFolders.corrupt
     THEN LoadCloudDataThrew(i)
     ELSE /\ recons' = [recons EXCEPT ![i] =
                          [@ EXCEPT !.pc = "syncAnalyses",
                                    !.localAnalyses = ParseOrEmpty(lsHistory),
                                    !.localFolders = ParseOrEmpty(lsFolders),
                                    !.failed = (out # "ok")]]
          /\ last' = Other
          /\ UNCHANGED << savedAnalyses, analysisFolders, resultRefs, isDataLoading,
                          lsHistory, lsFolders, remoteAnalyses, remoteFolders >>
  /\ UNCHANGED << mode, inputText, fileName, topicInput, status, analysisResult,
                  practiceResult, error, practiceQueue, practiceIndex, isGeneratingNext,
                  currentAnalysisId, hasLoadedCloudData, user, authLoading, ops,
                  requests, now, nextId, nextFolderId, mergesThisLogin >>
  /\ AnalysisViewRendered
  /\ UNCHANGED removed

\* dataService.syncAnalyses returns or throws (102-104)
AnalysesSynced(i, sel, ins, threw) ==
  /\ i \in 1..Len(recons) /\ recons[i].pc = "syncAnalyses"
  /\ LET rec == recons[i] IN
     IF threw
     THEN /\ Len(rec.localAnalyses) > 0
          /\ LoadCloudDataThrew(i)
     ELSE /\ remoteAnalyses' = syncAnalyses(rec.user, rec.localAnalyses, sel, ins)
          /\ recons' = [recons EXCEPT ![i] =
                          [@ EXCEPT !.pc = "syncFolders",
                                    !.localAnalyses = <<>>,
                                    !.failed = @ \/ SyncAnalysesFailed(
                                        rec.user, rec.localAnalyses, sel, ins)]]
          /\ last' = Other
          /\ UNCHANGED << savedAnalyses, analysisFolders, resultRefs, isDataLoading,
                          lsHistory, lsFolders, remoteFolders >>
  /\ UNCHANGED << mode, inputText, fileName, topicInput, status, analysisResult,
                  practiceResult, error, practiceQueue, practiceIndex, isGeneratingNext,
                  currentAnalysisId, hasLoadedCloudData, user, authLoading, ops,
                  requests, now, nextId, nextFolderId, mergesThisLogin >>
  /\ AnalysisViewRendered
  /\ UNCHANGED removed

\* dataService.syncFolders returns or throws (105-107)
FoldersSynced(i, sel, ins, threw) ==
  /\ i \in 1..Len(recons) /\ recons[i].pc = "syncFolders"
  /\ LET rec == recons[i] IN
     IF threw
     THEN /\ Len(rec.localFolders) > 0
          /\ LoadCloudDataThrew(i)
     ELSE /\ remoteFolders' = syncFolders(rec.user, rec.localFolders, sel, ins)
          /\ recons' = [recons EXCEPT ![i] =
                          [@ EXCEPT !.pc = "merge",
                                    !.localFolders = <<>>,
                                    !.failed = @ \/ SyncFoldersFailed(
                                        rec.user, rec.localFolders, sel, ins)]]
          /\ last' = Other
          /\ UNCHANGED << savedAnalyses, analysisFolders, resultRefs, isDataLoading,
                          lsHistory, lsFolders, remoteAnalyses >>
  /\ UNCHANGED << mode, inputText, fileName, topicInput, status, analysisResult,
                  practiceResult, error, practiceQueue, practiceIndex, isGeneratingNext,
                  currentAnalysisId, hasLoadedCloudData, user, authLoading, ops,
                  requests, now, nextId, nextFolderId, mergesThisLogin >>
  /\ AnalysisViewRendered
  /\ UNCHANGED removed

\* a faulty merge that shows the merged data and leaves the local cache as it was
MergedFetchedUncached(i, outA, outF, threw) ==
  /\ i \in 1..Len(recons) /\ recons[i].pc = "merge"
  /\ LET rec == recons[i] IN
     IF threw
     THEN LoadCloudDataThrew(i)
     ELSE LET mergedAnalyses == fetchAnalyses(rec.user, outA)
              mergedFolders == fetchFolders(rec.user, outF)
          IN /\ savedAnalyses' = mergedAnalyses
             /\ analysisFolders' = mergedFolders
             /\ resultRefs' = {}
             /\ isDataLoading' = FALSE
             /\ recons' = RemoveAt(recons, i)
             /\ last' = DidLoadCloudData(rec.failed \/ outA # "ok" \/ outF # "ok", FALSE)
             /\ UNCHANGED << remoteAnalyses, remoteFolders, lsHistory, lsFolders >>
  /\ UNCHANGED << mode, inputText, fileName, topicInput, status, analysisResult,
                  practiceResult, error, practiceQueue, practiceIndex, isGeneratingNext,
                  currentAnalysisId, hasLoadedCloudData, user, authLoading, ops,
                  requests, now, nextId, nextFolderId, mergesThisLogin >>
  /\ AnalysisViewRendered
  /\ UNCHANGED removed

\* the merged data is fetched, shown and written to the local cache (110-120), or
\* a fetch throws
MergedFetched(i, outA, outF, threw) ==
  /\ i \in 1..Len(recons) /\ recons[i].pc = "merge"
  /\ LET rec == recons[i] IN
     IF threw
     THEN LoadCloudDataThrew(i)
     ELSE LET mergedAnalyses == fetchAnalyses(rec.user, outA)
              mergedFolders == fetchFolders(rec.user, outF)
          IN /\ savedAnalyses' = mergedAnalyses
             /\ analysisFolders' = mergedFolders
             /\ resultRefs' = {}
             /\ lsHistory' = Stored(mergedAnalyses)
             /\ lsFolders' = Stored(mergedFolders)
             /\ isDataLoading' = FALSE
             /\ recons' = RemoveAt(recons, i)
             /\ last' = DidLoadCloudData(rec.failed \/ outA # "ok" \/ outF # "ok", FALSE)
             /\ UNCHANGED << remoteAnalyses, remoteFolders >>
  /\ UNCHANGED << mode, inputText, fileName, topicInput, status, analysisResult,
                  practiceResult, error, practiceQueue, practiceIndex, isGeneratingNext,
                  currentAnalysisId, hasLoadedCloudData, user, authLoading, ops,
                  requests, now, nextId, nextFolderId, mergesThisLogin >>
  /\ AnalysisViewRendered
  /\ UNCHANGED removed

-----------------------------------------------------------------------------
(* Specifications.  Each one is a part of the program small enough to be   *)
(* explored exhaustively; the handlers are the same definitions in all.    *)

\* the texts typed where the text only matters as the source of a saved analysis
SourceTexts == {<<"a">>, <<"b">>}

\* ---- The saved collections of a visitor who is not signed in: a first page
\* load, the analysis of typed or uploaded text, the history and its folders
Next ==
  \/ SetInputText(<<"a">>)
  \/ \E t \in SourceTexts, f \in FileNames : processFile(t, f)
  \/ \E m \in {"analyze_text", "history"} : SetMode(m)
  \/ handleAnalyzeText
  \/ \E i \in 1..MaxRequests, r \in Results : AnalysisResolved(i, r)
  \/ handleNewAnalysis
  \/ \E i \in 1..MaxIds : loadAnalysis(i)
  \/ saveAnalysis(<<>>)
  \/ \E id \in 1..MaxIds : removeAnalysis(id)
  \/ createFolder
  \/ \E f \in 1..MaxFolderIds : deleteFolder(f)
  \/ \E a \in 1..MaxIds, f \in 0..MaxFolderIds : moveAnalysisToFolder(a, f)

Spec == Init /\ [][Next]_vars

\* ---- The analysis session and the practice of its vocabulary
NextSession ==
  \/ \E t \in Texts : SetInputText(t)
  \/ \E t \in Texts, f \in FileNames : processFile(t, f)
  \/ clearFile
  \/ \E t \in Texts : SetTopicInput(t)
  \/ \E m \in {"analyze_text", "topic_strategy"} : SetMode(m)
  \/ handleAnalyzeText
  \/ \E via \in {"button", "enter"} : handleTopicStrategy(via)
  \/ \E i \in 1..MaxRequests, r \in Results : AnalysisResolved(i, r)
  \/ \E i \in 1..MaxRequests : AnalysisRejected(i)
  \/ handleNewAnalysis
  \/ \E r \in Results : \E sel \in Selections(r) : handleGeneratePractice(sel)
  \/ \E i \in 1..MaxRequests : PracticeResolved(i)
  \/ \E i \in 1..MaxRequests : PracticeRejected(i)
  \/ handleNextPracticeBatch
  \/ \E i \in 1..MaxRequests : NextBatchResolved(i)
  \/ \E i \in 1..MaxRequests : NextBatchRejected(i)
  \/ ClosePractice

SpecSession == Init /\ [][NextSession]_vars

\* ---- The steps of a login reconciliation
ReconciliationStep ==
  \/ \E i \in 1..MaxRecons, out \in CallOutcomes : CloudFetched(i, out)
  \/ \E i \in 1..MaxRecons, sel \in Outcomes, ins \in Outcomes, threw \in BOOLEAN :
       AnalysesSynced(i, sel, ins, threw)
  \/ \E i \in 1..MaxRecons, sel \in Outcomes, ins \in Outcomes, threw \in BOOLEAN :
       FoldersSynced(i, sel, ins, threw)
  \/ \E i \in 1..MaxRecons, outA \in Outcomes, outF \in Outcomes, threw \in BOOLEAN :
       MergedFetched(i, outA, outF, threw)

\* ---- Logins and logouts of a returning user, the reconciliation of each login
\* and the history kept in between, with saves of the analyses loaded from it
\* and the folder of the earlier page load;
\* no login arrives while the reconciliation of an earlier login is still running
NextCloud ==
  \/ \E m \in {"analyze_text", "history"} : SetMode(m)
  \/ handleNewAnalysis
  \/ \E i \in 1..MaxIds : loadAnalysis(i)
  \/ saveAnalysis(<<>>)
  \/ \E id \in 1..MaxIds : removeAnalysis(id)
  \/ \E f \in 1..MaxFolderIds : deleteFolder(f)
  \/ \E a \in 1..MaxIds, f \in 0..MaxFolderIds : moveAnalysisToFolder(a, f)
  \/ \E i \in 1..MaxOps, out \in Outcomes : RemoteCallReturned(i, out)
  \/ \E u \in Users \cup {Null} :
       (ShouldLoadCloudData(u) => recons = <<>>) /\ onAuthStateChange(u)
  \/ signOut
  \/ ReconciliationStep

SpecCloud == InitReturning /\ [][NextCloud]_vars

\* ---- Logins and logouts arriving at any time, with the operations of the
\* history view on what the earlier page load left
NextLogin ==
  \/ \E m \in {"analyze_text", "history"} : SetMode(m)
  \/ \E id \in 1..MaxIds : removeAnalysis(id)
  \/ \E f \in 1..MaxFolderIds : deleteFolder(f)
  \/ \E a \in 1..MaxIds, f \in 0..MaxFolderIds : moveAnalysisToFolder(a, f)
  \/ \E i \in 1..MaxOps, out \in Outcomes : RemoteCallReturned(i, out)
  \/ \E u \in Users \cup {Null} : onAuthStateChange(u)
  \/ signOut
  \/ ReconciliationStep

SpecLogin == InitReturning /\ [][NextLogin]_vars

\* ---- dataService.syncAnalyses and fetchAnalyses called in any order on a
\* table and a local collection drawn from ids 1..MaxSyncIds; a row of the
\* table belongs to the user or to somebody else
SyncAnalysis(id) == SavedAnalysis(id, id, <<"a">>, Null, "R1", <<>>, NoId)

RowOwners == Users \cup {"u2"}

SyncRemotes ==
  { {AnalysisToRow(o[id], SyncAnalysis(id)) : id \in {k \in 1..MaxSyncIds : o[k] # Null}} :
      o \in [1..MaxSyncIds -> RowOwners \cup {Null}] }

\* local collections, newest first
SyncLocals ==
  { LET rows == OrderByDateDesc({AnalysisToRow(Null, SyncAnalysis(id)) : id \in S})
    IN [i \in 1..Len(rows) |-> SyncAnalysis(rows[i].id)] : S \in SUBSET (1..MaxSyncIds) }

InitSync ==
  /\ mode = "analyze_text"
  /\ inputText = <<>>
  /\ fileName = Null
  /\ topicInput = <<>>
  /\ status = "idle"
  /\ analysisResult = Null
  /\ practiceResult = <<>>
  /\ error = Null
  /\ practiceQueue = <<>>
  /\ practiceIndex = 0
  /\ isGeneratingNext = FALSE
  /\ savedAnalyses = <<>>
  /\ analysisFolders = <<>>
  /\ isDataLoading = FALSE
  /\ currentAnalysisId = NoId
  /\ hasLoadedCloudData = TRUE
  /\ user \in Users
  /\ authLoading = FALSE
  /\ \E L \in SyncLocals : lsHistory = Stored(L)
  /\ lsFolders = Stored(<<>>)
  /\ remoteAnalyses \in SyncRemotes
  /\ remoteFolders = <<>>
  /\ recons = <<>>
  /\ ops = <<>>
  /\ requests = <<>>
  /\ now = MaxSyncIds
  /\ nextId = MaxSyncIds + 1
  /\ nextFolderId = 1
  /\ resultRefs = {}
  /\ last = Did("init", NoId)
  /\ mergesThisLogin = 1
  /\ analysisView = InitialAnalysisView
  /\ speeches = <<>>
  /\ removed = Unobserved

\* one call syncAnalyses(user.id, localAnalyses) with the local cache (98, 103)
\* has returned
SyncAnalysesReturned(sel, ins) ==
  /\ remoteAnalyses' = syncAnalyses(user, ParseOrEmpty(lsHistory), sel, ins)
  /\ last' = [op |-> "syncAnalyses", id |-> NoId,
              ok |-> ~SyncAnalysesFailed(user, ParseOrEmpty(lsHistory), sel, ins)]
  /\ UNCHANGED << mode, inputText, fileName, topicInput, status, analysisResult,
                  practiceResult, error, practiceQueue, practiceIndex, isGeneratingNext,
                  savedAnalyses, analysisFolders, isDataLoading, currentAnalysisId,
                  hasLoadedCloudData, user, authLoading, lsHistory, lsFolders,
                  remoteFolders, recons, ops, requests, now, nextId, nextFolderId,
                  resultRefs, mergesThisLogin >>
  /\ AnalysisViewRendered
  /\ UNCHANGED removed

\* one call fetchAnalyses(user.id) has returned and is shown (110-116)
FetchAnalysesReturned(out) ==
  /\ savedAnalyses' = fetchAnalyses(user, out)
  /\ UNCHANGED << mode, inputText, fileName, topicInput, status, analysisResult,
                  practiceResult, error, practiceQueue, practiceIndex, isGeneratingNext,
                  analysisFolders, isDataLoading, currentAnalysisId,
                  hasLoadedCloudData, user, authLoading, lsHistory, lsFolders,
                  remoteAnalyses, remoteFolders, recons, ops, requests, now, nextId,
                  nextFolderId, resultRefs, last, mergesThisLogin >>
  /\ AnalysisViewRendered
  /\ UNCHANGED removed

NextSync ==
  \/ \E sel \in Outcomes, ins \in Outcomes : SyncAnalysesReturned(sel, ins)
  \/ \E out \in Outcomes : FetchAnalysesReturned(out)

SpecSync == InitSync /\ [][NextSync]_vars

\* ---- dataService.updateAnalysis called on a table drawn as above, with an
\* edited analysis of any id
UpdatedSyncAnalysis(id) ==
  SavedAnalysis(id, MaxSyncIds + 1, <<"b">>, "f1", "R2", <<1>>, NoId)

\* one call updateAnalysis(user.id, a) (App.tsx 179-181) has returned
UpdateAnalysisReturned(a, out) ==
  /\ remoteAnalyses' = UpdateAnalysisRows(user, a, out)
  /\ last' = [op |-> "updateAnalysis", id |-> a.id, ok |-> out = "ok"]
  /\ UNCHANGED << mode, inputText, fileName, topicInput, status, analysisResult,
                  practiceResult, error, practiceQueue, practiceIndex, isGeneratingNext,
                  savedAnalyses, analysisFolders, isDataLoading, currentAnalysisId,
                  hasLoadedCloudData, user, authLoading, lsHistory, lsFolders,
                  remoteFolders, recons, ops, requests, now, nextId, nextFolderId,
                  resultRefs, mergesThisLogin >>
  /\ AnalysisViewRendered
  /\ UNCHANGED removed

NextUpdate ==
  \/ \E id \in 1..MaxSyncIds, out \in Outcomes :
       UpdateAnalysisReturned(UpdatedSyncAnalysis(id), out)
  \/ \E out \in Outcomes : FetchAnalysesReturned(out)

SpecUpdate == InitSync /\ [][NextUpdate]_vars

\* ---- a signed-out visitor analyses texts, writes and removes notes, saves,
\* and loads saved analyses again
NextNotes ==
  \/ \E t \in {<<"a">>, <<"b">>} : SetInputText(t)
  \/ handleAnalyzeText
  \/ \E i \in 1..MaxRequests : AnalysisResolved(i, "R1")
  \/ handleNewAnalysis
  \/ \E i \in 1..MaxIds : loadAnalysis(i)
  \/ \E id \in NoteIds : addNote(id)
  \/ \E id \in NoteIds : removeNote(id)
  \/ handleSaveAnalysisClick

SpecNotes == Init /\ [][NextNotes]_vars

\* ---- a returning visitor, signed out, analyses a text, loads the saved
\* analysis from the sidebar and reviews the vocabulary in the flashcard modal
\* of AnalysisView; the generation service answers with a result of two items
\* or of one
NextFlashcards ==
  \/ onAuthStateChange(Null)
  \/ SetInputText(<<"a">>)
  \/ handleAnalyzeText
  \/ \E i \in 1..MaxRequests, r \in {"R1", "R3"} : AnalysisResolved(i, r)
  \/ \E i \in 1..MaxIds : loadAnalysis(i)
  \/ openFlashcardMode
  \/ closeFlashcardMode
  \/ handleFlashcardNext
  \/ handleFlashcardPrev
  \/ \E m \in {"list", "flashcard"} : setViewMode(m)
  \/ handlePrevCard
  \/ handleNextCard
  \/ SetUserAnswer(<<"a">>)
  \/ \E isCorrect \in BOOLEAN : handleCheckFlashcardAnswer(isCorrect)
  \/ handleSkipFlashcard
  \/ \E r \in {"R1", "R3"} : \E text \in {Vocabulary(r)[1]} : handlePlayAudio(text)
  \/ \E i \in 1..MaxSpeeches : SpeechReturned(i)

SpecFlashcards == InitReturning /\ [][NextFlashcards]_vars

\* ---- Page loads over a local cache whose entries are absent, corrupt or
\* parsable, followed by logins and logouts, the reconciliation of each login,
\* and folders created and analyses removed in the history view; no login
\* arrives while the reconciliation of an earlier login is still running
LocalCaches ==
  { [history |-> h, folders |-> f] :
      h \in {Missing, Corrupt, Stored(<<EarlierAnalysis(NoId)>>)},
      f \in {Missing, Corrupt, Stored(<<>>)} }

InitLocal ==
  /\ mode = "analyze_text"
  /\ inputText = <<>>
  /\ fileName = Null
  /\ topicInput = <<>>
  /\ status = "idle"
  /\ analysisResult = Null
  /\ practiceResult = <<>>
  /\ error = Null
  /\ practiceQueue = <<>>
  /\ practiceIndex = 0
  /\ isGeneratingNext = FALSE
  /\ savedAnalyses = <<>>
  /\ analysisFolders = <<>>
  /\ isDataLoading = FALSE
  /\ currentAnalysisId = NoId
  /\ hasLoadedCloudData = FALSE
  /\ user = Null
  /\ authLoading = TRUE
  /\ \E c \in LocalCaches : lsHistory = c.history /\ lsFolders = c.folders
  /\ \E r \in EarlierRemotes : remoteAnalyses = r.analyses /\ remoteFolders = r.folders
  /\ recons = <<>>
  /\ ops = <<>>
  /\ requests = <<>>
  /\ now = MaxClock - 1
  /\ nextId = 2
  /\ nextFolderId = 2
  /\ resultRefs = {}
  /\ last = Did("init", NoId)
  /\ mergesThisLogin = 0
  /\ analysisView = InitialAnalysisView
  /\ speeches = <<>>
  /\ removed = Observing({})

NextLocal ==
  \/ \E m \in {"analyze_text", "history"} : SetMode(m)
  \/ \E id \in 1..MaxIds : removeAnalysis(id)
  \/ createFolder
  \/ \E i \in 1..MaxOps, out \in Outcomes : RemoteCallReturned(i, out)
  \/ \E u \in Users \cup {Null} :
       (ShouldLoadCloudData(u) => recons = <<>>) /\ onAuthStateChange(u)
  \/ signOut
  \/ ReconciliationStep

SpecLocal == InitLocal /\ [][NextLocal]_vars

\* ---- Logins of a returning user whose local cache holds an analysis saved
\* while signed out, with or without a note, a file name and a folder; each
\* login is reconciled before the next one arrives
NotedCaches ==
  { [history |-> Stored(<<SavedAnalysis(1, 1, <<"a">>, f, "R1", n, d)>>),
     folders |-> Stored(IF d = NoId THEN <<>> ELSE <<d>>)] :
      f \in FileNames \cup {Null}, n \in {<<>>, <<1>>}, d \in {NoId, 1} }

InitMerge ==
  /\ mode = "analyze_text"
  /\ inputText = <<>>
  /\ fileName = Null
  /\ topicInput = <<>>
  /\ status = "idle"
  /\ analysisResult = Null
  /\ practiceResult = <<>>
  /\ error = Null
  /\ practiceQueue = <<>>
  /\ practiceIndex = 0
  /\ isGeneratingNext = FALSE
  /\ savedAnalyses = <<>>
  /\ analysisFolders = <<>>
  /\ isDataLoading = FALSE
  /\ currentAnalysisId = NoId
  /\ hasLoadedCloudData = FALSE
  /\ user = Null
  /\ authLoading = TRUE
  /\ \E c \in NotedCaches : lsHistory = c.history /\ lsFolders = c.folders
  /\ \E r \in EarlierRemotes : remoteAnalyses = r.analyses /\ remoteFolders = r.folders
  /\ recons = <<>>
  /\ ops = <<>>
  /\ requests = <<>>
  /\ now = MaxClock - 1
  /\ nextId = 2
  /\ nextFolderId = 2
  /\ resultRefs = {}
  /\ last = Did("init", NoId)
  /\ mergesThisLogin = 0
  /\ analysisView = InitialAnalysisView
  /\ speeches = <<>>
  /\ removed = Unobserved

NextMerge ==
  \/ \E u \in Users \cup {Null} :
       (ShouldLoadCloudData(u) => recons = <<>>) /\ onAuthStateChange(u)
  \/ signOut
  \/ ReconciliationStep

SpecMerge == InitMerge /\ [][NextMerge]_vars

\* ---- One browser shared by two accounts: nothing is cached at first and the
\* remote store holds an analysis and a folder of u1; u1 and u2 sign in and
\* out, one reconciliation at a time, and remove what the history shows
SharedUsers == Users \cup {"u2"}

InitShared ==
  /\ mode = "analyze_text"
  /\ inputText = <<>>
  /\ fileName = Null
  /\ topicInput = <<>>
  /\ status = "idle"
  /\ analysisResult = Null
  /\ practiceResult = <<>>
  /\ error = Null
  /\ practiceQueue = <<>>
  /\ practiceIndex = 0
  /\ isGeneratingNext = FALSE
  /\ savedAnalyses = <<>>
  /\ analysisFolders = <<>>
  /\ isDataLoading = FALSE
  /\ currentAnalysisId = NoId
  /\ hasLoadedCloudData = FALSE
  /\ user = Null
  /\ authLoading = TRUE
  /\ lsHistory = Missing /\ lsFolders = Missing
  /\ remoteAnalyses = {AnalysisToRow("u1", EarlierAnalysis(1))}
  /\ remoteFolders = <<[user |-> "u1", id |-> 1]>>
  /\ recons = <<>>
  /\ ops = <<>>
  /\ requests = <<>>
  /\ now = MaxClock - 1
  /\ nextId = 2
  /\ nextFolderId = 2
  /\ resultRefs = {}
  /\ last = Did("init", NoId)
  /\ mergesThisLogin = 0
  /\ analysisView = InitialAnalysisView
  /\ speeches = <<>>
  /\ removed = Unobserved

NextShared ==
  \/ \E m \in {"analyze_text", "history"} : SetMode(m)
  \/ \E id \in 1..MaxIds : removeAnalysis(id)
  \/ \E f \in 1..MaxFolderIds : deleteFolder(f)
  \/ \E i \in 1..MaxOps, out \in Outcomes : RemoteCallReturned(i, out)
  \/ \E u \in SharedUsers \cup {Null} :
       (ShouldLoadCloudData(u) => recons = <<>>) /\ onAuthStateChange(u)
  \/ signOut
  \/ ReconciliationStep

SpecShared == InitShared /\ [][NextShared]_vars

\* ---- Analyses of two texts by a service that answers each text with its own
\* result, the text edited and saved analyses loaded while a request is
\* pending, and the saves of what is displayed
analyzeText(text) == IF text = <<"a">> THEN "R1" ELSE "R2"

AnalysisDelivered(i) ==
  /\ i \in 1..Len(requests) /\ requests[i].kind = "analyze"
  /\ AnalysisResolved(i, analyzeText(requests[i].items))

NextPairing ==
  \/ \E t \in SourceTexts : SetInputText(t)
  \/ handleAnalyzeText
  \/ \E i \in 1..MaxRequests : AnalysisDelivered(i)
  \/ handleNewAnalysis
  \/ \E i \in 1..MaxIds : loadAnalysis(i)
  \/ saveAnalysis(<<>>)

SpecPairing == Init /\ [][NextPairing]_vars

\* ---- Topic strategies for two topics by a service that answers each topic
\* with its own result, saved and followed by a new analysis; the textarea of
\* the other mode is left empty
generateTopicStrategy(topic) == IF topic = <<"a">> THEN "R1" ELSE "R2"

StrategyDelivered(i) ==
  /\ i \in 1..Len(requests) /\ requests[i].kind = "topic"
  /\ AnalysisResolved(i, generateTopicStrategy(requests[i].items))

NextTopics ==
  \/ \E m \in {"analyze_text", "topic_strategy"} : SetMode(m)
  \/ \E t \in SourceTexts : SetTopicInput(t)
  \/ handleTopicStrategy("button")
  \/ \E i \in 1..MaxRequests : StrategyDelivered(i)
  \/ handleNewAnalysis
  \/ \E i \in 1..MaxIds : loadAnalysis(i)
  \/ saveAnalysis(<<>>)

SpecTopics == Init /\ [][NextTopics]_vars

-----------------------------------------------------------------------------
(* Claims *)

\* the saved entry the current source matches, as the claim words it
C1_Matches(a) ==
  \/ fileName # Null /\ a.fileName = fileName
  \/ fileName = Null /\ a.fileName = Null /\ a.inputText = inputText

\* C1: a save (the only step at which the clock ticks) whose current fileName is
\* set and equals the fileName of a saved entry, or is unset while a saved entry
\* without fileName has the current inputText, updates that entry in place: same
\* id and position, date, inputText and analysisResult replaced by the current
\* ones, every other entry and the length of the collection unchanged
C1_SaveUpdatesInPlace ==
  [][ (now' = now + 1 /\ \E i \in 1..Len(savedAnalyses) : C1_Matches(savedAnalyses[i]))
      => /\ Len(savedAnalyses') = Len(savedAnalyses)
         /\ \E i \in 1..Len(savedAnalyses) :
              /\ C1_Matches(savedAnalyses[i])
              /\ savedAnalyses'[i].id = savedAnalyses[i].id
              /\ savedAnalyses'[i].date = now'
              /\ savedAnalyses'[i].inputText = inputText
              /\ savedAnalyses'[i].analysisResult = analysisResult
              /\ \A j \in 1..Len(savedAnalyses) :
                   j # i => savedAnalyses'[j] = savedAnalyses[j] ]_vars

\* C1 witness: the older of two saved entries has just been updated in place
C1_Witness ==
  /\ last.op = "saveUpdate"
  /\ Len(savedAnalyses) = 2
  /\ savedAnalyses[2].id = last.id
  /\ savedAnalyses[2].date = now

\* the entries of a collection have pairwise distinct ids
C2_Distinct(s) == \A i, j \in 1..Len(s) : i # j => s[i].id # s[j].id

\* C2: whatever saves (inserts and in-place updates), removals, folder
\* operations, logins with their reconciliation and logouts have run, no two
\* entries of the in-memory saved-analyses collection have the same id, and no
\* two entries of the local cache
C2_UniqueIds ==
  /\ C2_Distinct(savedAnalyses)
  /\ C2_Distinct(ParseOrEmpty(lsHistory))

\* C2 witness: a reconciliation has just shown two analyses, the earlier one and
\* one saved with a fresh id in this run
C2_Witness ==
  /\ last.op = "loadCloudData"
  /\ Len(savedAnalyses) = 2
  /\ nextId > 2
  /\ lsHistory = Stored(savedAnalyses)

\* the ids of a user's rows in the remote tables
C3_RemoteIds(rows, u) == {r.id : r \in {x \in rows : x.user = u}}
C3_RemoteFolderIds(rows, u) ==
  {rows[k].id : k \in {j \in 1..Len(rows) : rows[j].user = u}}

C4_FailureKeepsLocal ==
  [][ (/\ Len(recons') < Len(recons)
       /\ last'.op \in {"loadCloudData", "loadCloudDataThrew"}
       /\ ~last'.ok)
      => /\ ParseOrEmpty(lsHistory') = ParseOrEmpty(lsHistory)
         /\ ParseOrEmpty(lsFolders') = ParseOrEmpty(lsFolders)
         /\ savedAnalyses' = ParseOrEmpty(lsHistory)
         /\ analysisFolders' = ParseOrEmpty(lsFolders) ]_vars

\* C5: between two unauthenticated states loadCloudData is started at most
\* once, and no two calls of loadCloudData are running at the same time
C5_OneReconciliation ==
  /\ mergesThisLogin <= 1
  /\ Len(recons) <= 1

\* the ids fetchAnalyses returns for the user
C6_FetchedIds == Ids(fetchAnalyses(user, "ok"))

C7_DeleteFolder ==
  [][ (last'.op = "deleteFolder" /\ last'.id \in Range(analysisFolders))
      => LET F == last'.id
         IN /\ F \notin Range(analysisFolders')
            /\ Len(savedAnalyses') = Len(savedAnalyses)
            /\ \A i \in 1..Len(savedAnalyses) :
                 /\ savedAnalyses'[i].id = savedAnalyses[i].id
                 /\ savedAnalyses[i].folderId = F => savedAnalyses'[i].folderId = NoId
                 /\ savedAnalyses[i].folderId # F
                      => savedAnalyses'[i].folderId = savedAnalyses[i].folderId ]_vars

\* C7 witness: of two folders one has just been deleted; one analysis is
\* uncategorized and the other is still in the remaining folder
C7_Witness ==
  /\ last.op = "deleteFolder"
  /\ nextFolderId = 3
  /\ Len(analysisFolders) = 1 /\ last.id \notin Range(analysisFolders)
  /\ Len(savedAnalyses) = 2
  /\ \E i, j \in 1..2 :
       /\ savedAnalyses[i].folderId = NoId
       /\ savedAnalyses[j].folderId = analysisFolders[1]

\* C8: in every reachable state every analysis of the in-memory collection whose
\* folderId is not null has the id of a folder of the in-memory folder
\* collection
C8_FolderIdsExist ==
  \A i \in 1..Len(savedAnalyses) :
    savedAnalyses[i].folderId # NoId
      => savedAnalyses[i].folderId \in Range(analysisFolders)

\* the step issues a request of the generation service for an analysis
C9_Triggered ==
  /\ Len(requests') = Len(requests) + 1
  /\ requests'[Len(requests')].kind \in {"analyze", "topic"}

\* C9: a step that issues an analysis request is taken with non-blank inputText
\* (text analysis) or non-blank topic (topic strategy) and sets status =
\* analyzing, error = null and result = null; the step at which the request
\* succeeds sets status = complete and the result returned; the step at which
\* it fails sets status = idle and an error message and leaves no request
\* issued in its place; a topic trigger with a blank topic changes nothing
C9_StatusMachine ==
  [][ /\ C9_Triggered
        => /\ status' = "analyzing" /\ error' = Null /\ analysisResult' = Null
           /\ requests'[Len(requests')].kind = "analyze" => Trim(inputText) # <<>>
           /\ requests'[Len(requests')].kind = "topic" => Trim(topicInput) # <<>>
      /\ last'.op = "topic" => C9_Triggered
      /\ last'.op = "analysisResolved"
        => /\ status' = "complete" /\ analysisResult' \in Results
           /\ Len(requests') = Len(requests) - 1
      /\ last'.op = "analysisRejected"
        => /\ status' = "idle" /\ error' # Null
           /\ Len(requests') = Len(requests) - 1
      /\ last'.op = "topicBlank"
        => /\ Trim(topicInput) = <<>>
           /\ UNCHANGED sessionVars ]_vars

\* C9 witness: the only request in flight, of a topic strategy, has just failed
C9_Witness ==
  /\ last.op = "analysisRejected"
  /\ status = "idle" /\ error = "Failed to generate strategy"
  /\ analysisResult = Null
  /\ requests = <<>>

\* C10: whatever the state, the step of the new-analysis action leaves status
\* idle, the result null, the input text empty, the file name null, the current
\* analysis id null, the error null, the practice result null, the practice
\* queue empty and the practice cursor 0
C10_NewAnalysisResets ==
  [][ last'.op = "newAnalysis"
      => /\ status' = "idle"
         /\ analysisResult' = Null
         /\ inputText' = <<>>
         /\ fileName' = Null
         /\ currentAnalysisId' = NoId
         /\ error' = Null
         /\ practiceResult' = <<>>
         /\ practiceQueue' = <<>>
         /\ practiceIndex' = 0 ]_vars

\* the request the step issues, if it issues one of that kind
C11_Issued(kind) ==
  /\ Len(requests') = Len(requests) + 1
  /\ requests'[Len(requests')].kind = kind

\* C11: without a selection the initial practice request carries the first
\* BATCH_SIZE items of the vocabulary (all of them if there are fewer) and
\* leaves the cursor at BATCH_SIZE; a nextBatch request carries the items of the
\* queue from the cursor up to BATCH_SIZE further; and in queue mode a successful
\* nextBatch shows exactly the items of the queue from the cursor up to BATCH_SIZE further
\* and advances the cursor by BATCH_SIZE, so that no item is skipped or repeated
C11_ContiguousBatches ==
  [][ /\ (C11_Issued("practice") /\ practiceQueue' # <<>>)
        => /\ practiceQueue' = Vocabulary(analysisResult)
           /\ requests'[Len(requests')].items = Slice(practiceQueue', 0, BATCH_SIZE)
           /\ practiceIndex' = BATCH_SIZE
      /\ C11_Issued("nextBatch")
        => requests'[Len(requests')].items
             = Slice(practiceQueue, practiceIndex, practiceIndex + BATCH_SIZE)
      /\ (last'.op = "nextBatchResolved" /\ practiceQueue # <<>>)
        => /\ practiceResult'
                = <<Slice(practiceQueue, practiceIndex, practiceIndex + BATCH_SIZE)>>
           /\ practiceQueue' = practiceQueue
           /\ practiceIndex' = practiceIndex + BATCH_SIZE ]_vars

\* C12: the step at which a nextBatch request fails leaves the cursor, the queue
\* and the practice result shown unchanged and the loading flag false; nextBatch
\* is offered after it as it was before it, and a retry issued next requests
\* the slice of BATCH_SIZE items at that same cursor
C12_FailedBatchKeepsCursor ==
  [][ /\ last'.op = "nextBatchRejected"
        => /\ UNCHANGED << practiceIndex, practiceQueue, practiceResult >>
           /\ ~isGeneratingNext'
           /\ isNextAvailable' = isNextAvailable
      /\ (last.op = "nextBatchRejected" /\ C11_Issued("nextBatch"))
        => /\ UNCHANGED << practiceIndex, practiceQueue >>
           /\ requests'[Len(requests')].items
                = Slice(practiceQueue, practiceIndex, practiceIndex + BATCH_SIZE) ]_vars

\* C12 witness: the request for the second batch of a 7-item queue has just
\* failed; the first batch is still shown, the cursor is still at BATCH_SIZE and
\* the Next Batch button is offered and enabled
C12_Witness ==
  /\ last.op = "nextBatchRejected"
  /\ PracticeViewShown /\ isNextAvailable /\ ~isGeneratingNext
  /\ practiceIndex = BATCH_SIZE /\ Len(practiceQueue) = 7
  /\ practiceResult = <<Slice(practiceQueue, 0, BATCH_SIZE)>>
  /\ requests = <<>>

\* a nextBatch request succeeds in queue mode and its slice reaches the end of the queue
C13_LastBatchSucceeds ==
  /\ last'.op = "nextBatchResolved"
  /\ practiceQueue # <<>>
  /\ practiceIndex + BATCH_SIZE >= Len(practiceQueue)

\* C13 as stated: in queue mode the cursor never exceeds the length of the
\* queue, and once the batch that reaches the end of the queue has succeeded the
\* cursor equals the length of the queue and no further batch is offered
C13_CursorWithinQueue ==
  [][ /\ practiceQueue' # <<>> => practiceIndex' <= Len(practiceQueue')
      /\ C13_LastBatchSucceeds
           => practiceIndex' = Len(practiceQueue') /\ ~isNextAvailable' ]_vars

\* C13 amended: the cursor is a multiple of BATCH_SIZE, in queue mode at least
\* BATCH_SIZE, and can exceed the length of the queue; once the batch that reaches the
\* end of the queue has succeeded the cursor is at or past the length of the
\* queue and no further batch is offered, and none is offered again by a later
\* response
C13_CursorPastQueue ==
  [][ /\ practiceIndex' % BATCH_SIZE = 0
      /\ practiceQueue' # <<>> => practiceIndex' >= BATCH_SIZE
      /\ C13_LastBatchSucceeds
           => practiceIndex' >= Len(practiceQueue') /\ ~isNextAvailable'
      /\ (last'.op \in {"nextBatchResolved", "nextBatchRejected"} /\ ~isNextAvailable)
           => ~isNextAvailable' ]_vars

\* C13 witness: the second batch of a 7-item queue, items 5 and 6, has
\* succeeded; the cursor is 10, past the length 7, and no batch is offered
C13_Witness ==
  /\ last.op = "nextBatchResolved"
  /\ Len(practiceQueue) = 7 /\ practiceIndex = 2 * BATCH_SIZE
  /\ practiceResult = <<Slice(practiceQueue, BATCH_SIZE, 7)>>
  /\ PracticeViewShown /\ ~isNextAvailable

C16_AnalysisRequests ==
  {i \in 1..Len(requests) : requests[i].kind \in {"analyze", "topic"}}

\* C16: at most one analysis-generation request, text analysis or topic
\* strategy, is in flight at any time, and while status is analyzing no step
\* issues another one
C16_OneAnalysisRequest ==
  [][ /\ Cardinality(C16_AnalysisRequests') <= 1
      /\ status = "analyzing"
           => ~(C11_Issued("analyze") \/ C11_Issued("topic")) ]_vars

\* the rows of the user with the id of the call that returned last
C19_RowsOfCall(rows) == {r \in rows : r.user = user /\ r.id = last'.id}

\* a call of updateAnalysis returns without a backend error
C19_UpdateSucceeds == last'.op = "updateAnalysis" /\ last'.ok

\* C19 as stated: after updateAnalysis(userId, a) without backend error the
\* user has exactly one row with the id of a and it carries the fields of a,
\* whether or not the user had such a row before; the rows of other users are
\* unchanged
C19_InsertOrReplace ==
  [][ C19_UpdateSucceeds
        => /\ C19_RowsOfCall(remoteAnalyses')
                = {AnalysisToRow(user, UpdatedSyncAnalysis(last'.id))}
           /\ {r \in remoteAnalyses' : r.user # user}
                = {r \in remoteAnalyses : r.user # user} ]_vars

\* C19 amended: if the user had a row with the id of a, then after the call the
\* user has exactly one row with that id and it carries the fields of a; if the
\* user had none, the call inserts nothing and the table is unchanged; the
\* user's other rows and the rows of other users are unchanged
C19_ReplaceOnly ==
  [][ C19_UpdateSucceeds
        => /\ C19_RowsOfCall(remoteAnalyses) # {}
                => C19_RowsOfCall(remoteAnalyses')
                     = {AnalysisToRow(user, UpdatedSyncAnalysis(last'.id))}
           /\ C19_RowsOfCall(remoteAnalyses) = {}
                => remoteAnalyses' = remoteAnalyses
           /\ remoteAnalyses' \ C19_RowsOfCall(remoteAnalyses')
                = remoteAnalyses \ C19_RowsOfCall(remoteAnalyses) ]_vars

\* C19 witness: a call has replaced the one row of the user with that id, a
\* row of another user is in the table, and the fetch shows the edited analysis
C19_Witness ==
  /\ last.op = "updateAnalysis" /\ last.ok
  /\ AnalysisToRow(user, UpdatedSyncAnalysis(last.id)) \in remoteAnalyses
  /\ \E r \in remoteAnalyses : r.user # user
  /\ savedAnalyses # <<>>
  /\ savedAnalyses[1] = UpdatedSyncAnalysis(last.id)

\* the notes of the saved analysis with the given id
C20_SavedNotes(saved, id) ==
  saved[CHOOSE i \in 1..Len(saved) : saved[i].id = id].notes

\* C20: when the user removes a note in the analysis view and then saves,
\* the notes of the saved analysis the save wrote no longer contain that note,
\* also when it was the only note left, and contain the notes still shown in
\* the view
C20_RemovedNoteIsGone ==
  [][ (last.op = "removeNote" /\ last'.op \in {"saveUpdate", "saveInsert"})
        => /\ last.id \notin Range(C20_SavedNotes(savedAnalyses', last'.id))
           /\ Range(analysisView.notes)
                \subseteq Range(C20_SavedNotes(savedAnalyses', last'.id)) ]_vars

\* C15: while the flashcard session of the analysis view is open over a
\* vocabulary of L >= 1 items its cursor is within 0..L-1, also after the
\* displayed analysis was replaced; prev at 0 and next at L-1 leave the cursor
\* where it is
C15_CursorWithinList ==
  [][ /\ ( /\ AnalysisViewMounted(isDataLoading', mode', analysisResult')
           /\ analysisView'.isFlashcardMode )
        => analysisView'.flashcardIndex \in 0..(VocabLen(analysisResult') - 1)
      /\ (last'.op = "flashcardPrev" /\ analysisView.flashcardIndex = 0)
        => analysisView'.flashcardIndex = 0
      /\ ( /\ last'.op = "flashcardNext"
           /\ analysisView.flashcardIndex = VocabLen(analysisResult) - 1 )
        => analysisView'.flashcardIndex = analysisView.flashcardIndex ]_vars

\* the generateSpeech calls in flight that the mounted analysis view issued
C17_Playbacks == {i \in 1..Len(speeches) : speeches[i].live}

\* C17: at most one speech playback of the analysis view is in flight, and
\* no handler, play-audio button, answer check or skip, issues one while
\* another is in flight
C17_OnePlayback ==
  [][ /\ Cardinality(C17_Playbacks') <= 1
      /\ C17_Playbacks # {} => Len(speeches') <= Len(speeches) ]_vars

\* the local cache is loaded at application start or after a logout: the auth
\* state becomes "no user" (App.tsx 131-141)
C18_LocalLoad == user' = Null /\ ~authLoading' /\ (user # Null \/ authLoading)

C21_NulledBeforeRemoved ==
  [][ \A i \in 1..Len(remoteFolders) :
        (\A j \in 1..Len(remoteFolders') : remoteFolders'[j] # remoteFolders[i])
          => \A r \in remoteAnalyses' :
               ~(r.user = remoteFolders[i].user /\ r.folderId = remoteFolders[i].id) ]_vars

\* the six fields of a saved analysis that the claim compares (the source type
\* is not part of the model's record)
C22_Content(a) ==
  << a.id, a.inputText, a.fileName, a.analysisResult, a.notes, a.folderId >>

\* C22: reconciliation preserves the content of local-only analyses: when
\* syncAnalyses returns without error, every analysis of the local cache whose
\* id the user's remote collection lacked has a row that reads back
\* (dbToAnalysis) with the local notes, folderId, inputText, fileName and
\* analysisResult; and the merged view of a reconciliation without error is
\* the user's remote rows read back
C22_LocalOnlyContentKept ==
  [][ /\ \A i \in 1..Len(recons) :
           (/\ Len(recons') = Len(recons)
            /\ recons[i].pc = "syncAnalyses" /\ recons'[i].pc = "syncFolders"
            /\ ~recons'[i].failed)
           => \A k \in 1..Len(recons[i].localAnalyses) :
                LET a == recons[i].localAnalyses[k]
                    u == recons[i].user
                IN a.id \notin C3_RemoteIds(remoteAnalyses, u)
                     => \E r \in remoteAnalyses' :
                          /\ r.user = u
                          /\ C22_Content(dbToAnalysis(r)) = C22_Content(a)
      /\ (Len(recons') < Len(recons) /\ last'.op = "loadCloudData" /\ last'.ok)
           => \E i \in 1..Len(recons) :
                /\ recons' = RemoveAt(recons, i)
                /\ Ids(savedAnalyses') = C3_RemoteIds(remoteAnalyses', recons[i].user)
                /\ \A k \in 1..Len(savedAnalyses') :
                     \E r \in remoteAnalyses' :
                       r.user = recons[i].user /\ dbToAnalysis(r) = savedAnalyses'[k] ]_vars

\* C23: once the user has removed an analysis its id never again appears in
\* the in-memory collection or in the local cache, whatever saves, logouts and
\* logins follow
C23_RemovedStaysRemoved ==
  removed.ids \cap (Ids(savedAnalyses) \cup Ids(ParseOrEmpty(lsHistory))) = {}

\* C24: user isolation on one browser: after u1 signed in and out, when u2
\* signs in no analysis and no folder that came from u1's remote collection
\* (here: every analysis and folder there is) is inserted into u2's remote
\* collection or shown in u2's merged view
C24_UserIsolation ==
  [][ /\ \A r \in remoteAnalyses' : r.user # "u1" => r \in remoteAnalyses
      /\ \A j \in 1..Len(remoteFolders') :
           remoteFolders'[j].user # "u1"
             => \E k \in 1..Len(remoteFolders) : remoteFolders[k] = remoteFolders'[j]
      /\ (Len(recons') < Len(recons) /\ last'.op = "loadCloudData")
           => \A i \in 1..Len(recons) :
                (recons' = RemoveAt(recons, i) /\ recons[i].user # "u1")
                  => savedAnalyses' = <<>> /\ analysisFolders' = <<>> ]_vars

\* C25: every SavedAnalysis written by save pairs an analysisResult with the
\* inputText it was generated from, whatever was edited or loaded while the
\* request was pending: the saved result is the service's answer to the saved
\* text
C25_SavedPairsResultWithSource ==
  \A i \in 1..Len(savedAnalyses) :
    savedAnalyses[i].analysisResult = analyzeText(savedAnalyses[i].inputText)

\* C26: saving the results of two topic-strategy generations for two different
\* topics yields two distinct saved analyses: a save of the displayed strategy
\* leaves every entry saved for another topic (one with another result) in the
\* collection as it was
C26_SaveKeepsOtherTopic ==
  [][ (now' = now + 1 /\ last'.op \in {"saveInsert", "saveUpdate"})
      => \A i \in 1..Len(savedAnalyses) :
           savedAnalyses[i].analysisResult # analysisResult
             => \E j \in 1..Len(savedAnalyses') : savedAnalyses'[j] = savedAnalyses[i] ]_vars

\* C27: a practice response only affects the session it was requested for, so
\* the cursor always equals BATCH_SIZE times the number of batches delivered
\* from the current queue: it is 0 while there is no queue, and with a queue of
\* L items it never passes the end of the batch that holds the last item
C27_CursorCountsBatches ==
  IF practiceQueue = <<>> THEN practiceIndex = 0
  ELSE practiceIndex < Len(practiceQueue) + BATCH_SIZE

\* C28: notes added in the analysis view stay until the user removes them or a
\* different analysis is loaded: a state change of the parent under which the
\* view stays mounted with the same result and the same current analysis id
\* leaves the view's notes unchanged
C28_NotesStay ==
  [][ (/\ appState' # appState
       /\ AnalysisViewMounted(isDataLoading, mode, analysisResult)
       /\ AnalysisViewMounted(isDataLoading', mode', analysisResult')
       /\ analysisResult' = analysisResult
       /\ currentAnalysisId' = currentAnalysisId)
      => analysisView'.notes = analysisView.notes ]_vars

\* C29: in every reachable state, status = complete implies that the current
\* analysis result is not null
C29_CompleteHasResult == status = "complete" => analysisResult # Null

\* C30: whenever the analysis view shows the card row of a category, the
\* stored index of that category is below the number of items of the category
\* in the displayed analysis, also after the displayed analysis was replaced
\* by one with fewer items
C30_CategoryIndexWithinItems ==
  CategoryCardsShown => analysisView.categoryIndex < VocabLen(analysisResult)

=========================================================================
